---- MODULE Spec2Model ----
(***************************************************************************)
(* Worker-side model-instance lifecycle coordinator of gpustack            *)
(* (gpustack/worker/serve_manager.py, class ServeManager).                 *)
(*                                                                         *)
(* The control plane keeps one ModelInstance record per instance id.  Each *)
(* worker runs a ServeManager with three control loops: the event loop     *)
(* (_handle_model_instance_event), the health sweep                        *)
(* (health_check_serving_instances) and the restart sweep                  *)
(* (monitor_error_instances).  Every control-plane call (get / update) is  *)
(* a step of its own, so that calls of different workers, and of different *)
(* loops of one worker, can interleave where the scheduling allows it.     *)
(*                                                                         *)
(* List positions are 1-based here (Python's position p is p + 1).         *)
(* Time is counted in seconds; 0 stands for "no time recorded" (None).     *)
(***************************************************************************)
EXTENDS Integers, Sequences, FiniteSets, TLC

(***************************************************************************)
(* Bounds of the model.                                                    *)
(***************************************************************************)
NumInstances == 1
MaxPort == 2
MaxTime == 10
MaxRestart == 1
MaxFaults == 1
MaxCount == 8
MaxLiveTime == 20
NumSweepInstances == 2
MaxDate == 2
MaxWrites == 2

Workers == {1, 2, 3}
Instances == 1..NumInstances
PortRange == 1..MaxPort
Loops == {"ev", "hc", "rs"}

(***************************************************************************)
(* Enumerations of gpustack.schemas.models and gpustack.server.bus.        *)
(***************************************************************************)
SCHEDULED == "SCHEDULED"
INITIALIZING == "INITIALIZING"
STARTING == "STARTING"
RUNNING == "RUNNING"
ERROR == "ERROR"
ModelInstanceStateEnum == {SCHEDULED, INITIALIZING, STARTING, RUNNING, ERROR}

RUN_FIRST == "RUN_FIRST"
DELEGATED == "DELEGATED"
INITIALIZE_LATER == "INITIALIZE_LATER"
NO_DISTRIBUTED == "NONE"

CREATED == "CREATED"
UPDATED == "UPDATED"
DELETED == "DELETED"

VLLM == "VLLM"
ASCEND_MINDIE == "ASCEND_MINDIE"

(***************************************************************************)
(* Python dicts, kept as sequences of [k, v] entries in insertion order.   *)
(***************************************************************************)
DictHas(d, k) == \E j \in DOMAIN d : d[j].k = k

DictGet(d, k) == d[CHOOSE j \in DOMAIN d : d[j].k = k].v

DictSet(d, k, v) ==
    IF DictHas(d, k)
    THEN [j \in DOMAIN d |-> IF d[j].k = k THEN [k |-> k, v |-> v] ELSE d[j]]
    ELSE Append(d, [k |-> k, v |-> v])

DictPop(d, k) == SelectSeq(d, LAMBDA e : e.k # k)

DictKeys(d) == {d[j].k : j \in DOMAIN d}

Min(a, b) == IF a <= b THEN a ELSE b

RECURSIVE Pow2(_)
Pow2(n) == IF n <= 0 THEN 1 ELSE 2 * Pow2(n - 1)

VARIABLES
    cp,        \* control plane: instance id -> ModelInstance record
    models,    \* control plane: instance id -> its Model (immutable)
    now,       \* wall clock, in seconds
    grain,     \* which steps may interleave ("serial", "cluster", "threads")
    worker,    \* worker id -> ServeManager fields, host processes, mapping file
    inbox,     \* worker id -> the event being delivered to the callback
    told,      \* worker id -> instance ids whose DELETED event was delivered
    pc,        \* worker id -> loop -> position of that control loop
    call,      \* worker id -> loop -> the _update_model_instance in flight
    items,     \* worker id -> loop -> the rest of the list a sweep iterates
    faults,    \* number of failures so far: lookups, spawns, process exits
    date,      \* the date datetime.now() gives (0: no log file object exists)
    files,     \* log directory: date -> what <log_dir>/<date>.log contains
    handles,   \* the file objects open() returned, each with its closed flag
    logger,    \* the fields of the DailyRotatingLogFile object
    thread     \* thread name -> position and locals of that thread

coordinator == <<cp, models, now, grain, worker, inbox, told, pc, call, items, faults>>
logfile == <<date, files, handles, logger, thread>>
vars == <<cp, models, now, grain, worker, inbox, told, pc, call, items, faults,
          date, files, handles, logger, thread>>

\* A coordinator whose output is not redirected to a DailyRotatingLogFile.
NoLogger ==
    /\ date = 0
    /\ files = <<>>
    /\ handles = <<>>
    /\ logger = [current_file |-> 0]
    /\ thread = <<>>

(***************************************************************************)
(* Records.                                                                *)
(***************************************************************************)
NoEvent == [type |-> "none"]
NoCall == [op |-> "none"]
NoRecord == [exists |-> FALSE]

\* ModelInstanceSubordinateWorker of a fresh instance.
NewSubordinate(w) == [worker_id |-> w, state |-> SCHEDULED, state_message |-> "", pid |-> 0]

\* ModelInstance as the scheduler creates it: assigned to worker_id, no port yet.
NewInstance(i, main, mode, subs, t) ==
    [id |-> i, exists |-> TRUE, worker_id |-> main, state |-> SCHEDULED,
     state_message |-> "", port |-> 0, ports |-> <<>>, pid |-> 0,
     restart_count |-> 0, last_restart_time |-> 0, updated_at |-> t,
     mode |-> mode,
     subordinate_workers |-> [p \in DOMAIN subs |-> NewSubordinate(subs[p])]]

\* ServeManager.__init__, on a host that runs no server process yet.
NewServeManager ==
    [serving_model_instances |-> <<>>,
     serving_model_instance_ports |-> <<>>,
     starting_model_instances |-> <<>>,
     error_model_instances |-> <<>>,
     model_cache_by_instance |-> <<>>,
     instance_mapping |-> <<>>,
     processes |-> {}]

HasDistributed(mi) == mi.mode # NO_DISTRIBUTED

\* next(i for i, sw in enumerate(subordinate_workers) if sw.worker_id == self._worker_id)
SwPos(mi, w) ==
    CHOOSE p \in DOMAIN mi.subordinate_workers :
        /\ mi.subordinate_workers[p].worker_id = w
        /\ \A q \in 1..(p - 1) : mi.subordinate_workers[q].worker_id # w

Joined(mi, w) == \E p \in DOMAIN mi.subordinate_workers : mi.subordinate_workers[p].worker_id = w

(***************************************************************************)
(* The coordination gate at the head of _handle_model_instance_event:      *)
(* "proceed" falls through to the dispatch, "wait" and "ignore" return.    *)
(***************************************************************************)
ShouldActMain_AnyRunning(mi) ==
    IF /\ HasDistributed(mi)
       /\ mi.mode = RUN_FIRST
       /\ Len(mi.subordinate_workers) > 0
       /\ ~(\E p \in DOMAIN mi.subordinate_workers : mi.subordinate_workers[p].state = RUNNING)
    THEN "wait"
    ELSE "proceed"

ShouldActMain(mi) ==
    IF /\ HasDistributed(mi)
       /\ mi.mode = RUN_FIRST
       /\ Len(mi.subordinate_workers) > 0
       /\ ~(\A p \in DOMAIN mi.subordinate_workers : mi.subordinate_workers[p].state = RUNNING)
    THEN "wait"
    ELSE "proceed"

EarlierReady_SkipsPrevious(mi, w) ==
    \A p \in 1..(SwPos(mi, w) - 2) : mi.subordinate_workers[p].state \in {RUNNING, ERROR}

EarlierReady(mi, w) ==
    \A p \in 1..(SwPos(mi, w) - 1) : mi.subordinate_workers[p].state \in {RUNNING, ERROR}

ShouldActSubordinate_StartsEarly(mi, w) ==
    IF ~HasDistributed(mi) THEN "ignore"
    ELSE IF mi.mode = DELEGATED THEN "ignore"
    ELSE IF ~Joined(mi, w) THEN "ignore"
    ELSE IF ~EarlierReady(mi, w) THEN "wait"
    ELSE "proceed"

ShouldActSubordinate_ServesDelegated(mi, w) ==
    IF ~HasDistributed(mi) THEN "ignore"
    ELSE IF ~Joined(mi, w) THEN "ignore"
    ELSE IF mi.mode = INITIALIZE_LATER /\ mi.state \notin {STARTING, RUNNING, ERROR} THEN "wait"
    ELSE IF ~EarlierReady(mi, w) THEN "wait"
    ELSE "proceed"

ShouldActSubordinate(mi, w) ==
    IF ~HasDistributed(mi) THEN "ignore"
    ELSE IF mi.mode = DELEGATED THEN "ignore"
    ELSE IF ~Joined(mi, w) THEN "ignore"
    ELSE IF mi.mode = INITIALIZE_LATER /\ mi.state \notin {STARTING, RUNNING, ERROR} THEN "wait"
    ELSE IF ~EarlierReady(mi, w) THEN "wait"
    ELSE "proceed"

ShouldAct(mi, w) ==
    IF mi.worker_id = w THEN ShouldActMain(mi) ELSE ShouldActSubordinate(mi, w)

(***************************************************************************)
(* Collaborators whose code is outside the files of the coordinator.       *)
(***************************************************************************)
\* gpustack.utils.attrs.set_attr: assign one field, or one list position.
SetAttr(rec, a) ==
    IF a.pos = 0
    THEN [rec EXCEPT ![a.f] = a.v]
    ELSE [rec EXCEPT !.subordinate_workers[a.pos] = a.v]

RECURSIVE SetAttrs(_, _)
SetAttrs(rec, patch) ==
    IF patch = <<>> THEN rec ELSE SetAttrs(SetAttr(rec, Head(patch)), Tail(patch))

Attr(f, v) == [f |-> f, pos |-> 0, v |-> v]
SlotAttr(pos, sw) == [f |-> "subordinate_workers", pos |-> pos, v |-> sw]

\* clientset.model_instances.update: the record becomes the one sent.
ClientUpdate(sent, t) == [sent EXCEPT !.updated_at = t]

\* psutil: the process with this pid runs on the host.
IsAlive(W, pid) == \E p \in W.processes : p.pid = pid

\* gpustack.utils.process.terminate_process_tree
TerminateProcessTree(W, pid) == [W EXCEPT !.processes = {p \in @ : p.pid # pid}]

\* The ports network.get_free_port may return.
FreePorts(unavailable) == PortRange \ unavailable

(***************************************************************************)
(* ServeManager: the mapping file, the stop path.  W is one worker's       *)
(* state (worker[w]); each operator gives the state after the call.        *)
(***************************************************************************)
\* replica_log_dir = <serve log dir>/<model name>/<instance name>
ReplicaLogDir(mi) == <<"serve", mi.id>>

\* instance_mapping.txt is kept as the sequence of its "id:path" lines, each
\* line as [k |-> id, v |-> path].
\* for line in f: mappings[int(inst_id)] = dir_path, leaving out the ids of
\* `skip`: a later line of an id replaces the value of an earlier one.
RECURSIVE ReadMappings(_, _)
ReadMappings(lines, skip) ==
    IF lines = <<>>
    THEN <<>>
    ELSE LET n == Len(lines)
             before == ReadMappings(SubSeq(lines, 1, n - 1), skip)
         IN  IF lines[n].k \in skip
             THEN before
             ELSE DictSet(before, lines[n].k, lines[n].v)

\* for inst_id, dir_path in mappings.items(): f.write(f"{inst_id}:{dir_path}\n")
WriteMappings(mappings) ==
    [j \in DOMAIN mappings |-> [k |-> mappings[j].k, v |-> mappings[j].v]]

UpdatedMappings_Appends(lines, id, dir) ==
    Append(ReadMappings(lines, {}), [k |-> id, v |-> dir])

\* _update_instance_mapping up to the rewrite: read, then mappings[id] = dir.
UpdatedMappings(lines, id, dir) == DictSet(ReadMappings(lines, {}), id, dir)

\* _remove_instance_mapping up to the rewrite: read all lines but those of id.
RemainingMappings(lines, id) == ReadMappings(lines, {id})

\* The two calls where nothing else touches the file between read and rewrite.
UpdateInstanceMapping(W, id, dir) ==
    [W EXCEPT !.instance_mapping = WriteMappings(UpdatedMappings(@, id, dir))]

RemoveInstanceMapping(W, id) ==
    [W EXCEPT !.instance_mapping = WriteMappings(RemainingMappings(@, id))]

PostStopModelInstance_KeepsPorts(W, id) ==
    RemoveInstanceMapping(
        [W EXCEPT !.serving_model_instances = DictPop(@, id),
                  !.starting_model_instances = DictPop(@, id),
                  !.model_cache_by_instance = DictPop(@, id)],
        id)

PostStopModelInstance(W, id) ==
    RemoveInstanceMapping(
        [W EXCEPT !.serving_model_instances = DictPop(@, id),
                  !.serving_model_instance_ports = DictPop(@, id),
                  !.starting_model_instances = DictPop(@, id),
                  !.model_cache_by_instance = DictPop(@, id)],
        id)

StopModelInstance(W, id) ==
    IF ~DictHas(W.serving_model_instances, id)
    THEN W
    ELSE PostStopModelInstance(
             TerminateProcessTree(W, DictGet(W.serving_model_instances, id)), id)

(***************************************************************************)
(* ServeManager._start_serve_process, up to the control-plane patch.       *)
(* inp holds what the environment decides: whether the model lookup        *)
(* answers, which free port(s) the allocator returns (0: none), whether    *)
(* the process can be spawned.  The result is the worker's state and the   *)
(* patch to send, with ok = FALSE when the except branch was taken.        *)
(***************************************************************************)
UnavailablePorts_None(W) == {}

UnavailablePorts(W) ==
    UNION {W.serving_model_instance_ports[j].v : j \in DOMAIN W.serving_model_instance_ports}

\* A pid the host gives to a new process: none it still has in use.
NewPid(W, held) ==
    CHOOSE n \in 1..(Cardinality(W.processes) + Len(W.serving_model_instances) + Cardinality(held) + 1) :
        /\ ~IsAlive(W, n)
        /\ n \notin {W.serving_model_instances[j].v : j \in DOMAIN W.serving_model_instances}
        /\ n \notin held
        /\ \A m \in 1..(n - 1) :
              \/ IsAlive(W, m)
              \/ m \in {W.serving_model_instances[j].v : j \in DOMAIN W.serving_model_instances}
              \/ m \in held

TrackStarted_NotStarting(W, id, pid, ports) ==
    [W EXCEPT
       !.serving_model_instances = DictSet(@, id, pid),
       !.serving_model_instance_ports = DictSet(@, id, {ports[j] : j \in DOMAIN ports})]

\* The spawned process is tracked: "serving", "serving ports", "starting".
TrackStarted(W, id, pid, ports) ==
    [W EXCEPT
       !.serving_model_instances = DictSet(@, id, pid),
       !.serving_model_instance_ports = DictSet(@, id, {ports[j] : j \in DOMAIN ports}),
       !.starting_model_instances = DictSet(@, id, TRUE)]

StartInputs ==
    [lookup_ok : BOOLEAN, port : 0..MaxPort, port2 : 0..MaxPort, spawn_ok : BOOLEAN]

FailedPatch(mi, main, pos, sw) ==
    IF main
    THEN <<Attr("state", ERROR), Attr("state_message", "Failed to start model instance")>>
    ELSE <<SlotAttr(pos, [sw EXCEPT !.state = ERROR,
                                    !.state_message = "Failed to start model instance"])>>

StartServeProcess(W, mi, w, model, held, inp) ==
    LET main == mi.worker_id = w
        pos == IF main THEN 0 ELSE SwPos(mi, w)
        sw == IF main THEN NewSubordinate(w) ELSE mi.subordinate_workers[pos]
        W1 == UpdateInstanceMapping(W, mi.id, ReplicaLogDir(mi))
        cached == DictHas(W1.model_cache_by_instance, mi.id)
        W2 == IF cached \/ ~inp.lookup_ok THEN W1
              ELSE [W1 EXCEPT !.model_cache_by_instance = DictSet(@, mi.id, model)]
        unavailable == UnavailablePorts(W2)
        assign == mi.port = 0
        second == /\ assign
                  /\ HasDistributed(mi)
                  /\ Len(mi.subordinate_workers) > 0
                  /\ model.backend = ASCEND_MINDIE
        port == IF assign THEN inp.port ELSE mi.port
        ports == IF ~assign THEN mi.ports
                 ELSE IF second THEN <<inp.port, inp.port2>> ELSE <<inp.port>>
        failed == \/ ~cached /\ ~inp.lookup_ok
                  \/ assign /\ inp.port = 0
                  \/ second /\ inp.port2 = 0
                  \/ ~inp.spawn_ok
        pid == NewPid(W2, held)
        W3 == TrackStarted([W2 EXCEPT !.processes = @ \cup {[pid |-> pid, id |-> mi.id]}],
                           mi.id, pid, ports)
        sw1 == [sw EXCEPT !.state = IF model.backend = ASCEND_MINDIE
                                    THEN RUNNING ELSE INITIALIZING,
                          !.pid = pid]
    IN  IF failed
        THEN [W |-> W2, ok |-> FALSE, patch |-> FailedPatch(mi, main, pos, sw),
              retry |-> <<>>]
        ELSE [W |-> W3, ok |-> TRUE,
              patch |-> IF main
                        THEN <<Attr("state", INITIALIZING), Attr("port", port),
                               Attr("ports", ports), Attr("pid", pid)>>
                        ELSE <<SlotAttr(pos, sw1)>>,
              retry |-> FailedPatch(mi, main, pos, sw1)]

\* A failure the environment injects (an allocation that fails because every
\* port of the range is reserved is none).
Injected(inp) == ~inp.lookup_ok \/ ~inp.spawn_ok

\* The inputs the environment can give for this call: the lookup is asked
\* only when the model is not cached, a port the allocator returns is free,
\* and a second port differs from the first.
StartInputsFor(W, mi, model) ==
    LET W1 == StopModelInstance(W, mi.id)
        free == FreePorts(UnavailablePorts(W1))
        assign == mi.port = 0
        second == /\ assign
                  /\ HasDistributed(mi)
                  /\ Len(mi.subordinate_workers) > 0
                  /\ model.backend = ASCEND_MINDIE
    IN  {inp \in StartInputs :
            /\ Injected(inp) => faults < MaxFaults
            /\ DictHas(W1.model_cache_by_instance, mi.id) => inp.lookup_ok
            /\ inp.port \in IF ~assign THEN {0} ELSE IF free = {} THEN {0} ELSE free
            /\ inp.port2 \in IF ~second \/ inp.port = 0 THEN {0}
                              ELSE IF free \ {inp.port} = {} THEN {0} ELSE free \ {inp.port}}

(***************************************************************************)
(* ServeManager._handle_model_instance_event: the dispatch behind the      *)
(* gate.  The result is the worker's state and, when the start path ran,   *)
(* the _update_model_instance call it goes on with.                        *)
(***************************************************************************)
UpdateCall(id, patch, retry, next) ==
    [op |-> "update", id |-> id, patch |-> patch, retry |-> retry,
     next |-> next, fetched |-> NoRecord]

StartCall(W, mi, w, model, held, inp) ==
    LET r == StartServeProcess(W, mi, w, model, held, inp)
    IN  [W |-> r.W,
         call |-> UpdateCall(mi.id, r.patch, r.retry, IF r.ok THEN "started" ELSE "failed")]

\* The remembered snapshot, with the attributes _restart_error_instance reads.
Remembered(mi) ==
    [id |-> mi.id, restart_count |-> mi.restart_count,
     last_restart_time |-> mi.last_restart_time, updated_at |-> mi.updated_at]

RememberError_AnyModel(W, mi, model, inp) ==
    LET cached == DictHas(W.model_cache_by_instance, mi.id)
        W1 == IF cached THEN W
              ELSE [W EXCEPT !.model_cache_by_instance = DictSet(@, mi.id, model)]
    IN  IF ~cached /\ ~inp.lookup_ok THEN W
        ELSE [W1 EXCEPT !.error_model_instances = DictSet(@, mi.id, Remembered(mi))]

\* _get_model_with_cache for an ERROR event; a failed lookup raises.
RememberError(W, mi, model, inp) ==
    LET cached == DictHas(W.model_cache_by_instance, mi.id)
        W1 == IF cached THEN W
              ELSE [W EXCEPT !.model_cache_by_instance = DictSet(@, mi.id, model)]
    IN  IF ~cached /\ ~inp.lookup_ok THEN W
        ELSE IF model.restart_on_error
        THEN [W1 EXCEPT !.error_model_instances = DictSet(@, mi.id, Remembered(mi))]
        ELSE W1

RestartServeProcess_NoStop(W, mi, w, model, held, inp) ==
    StartCall(W, mi, w, model, held, inp)

RestartServeProcess(W, mi, w, model, held, inp) ==
    StartCall(StopModelInstance(W, mi.id), mi, w, model, held, inp)

Dispatch_RestartsAnyState(W, ev, w, model, held, inp) ==
    LET mi == ev.data
        tracked == DictHas(W.serving_model_instances, mi.id)
    IN  IF mi.state = ERROR /\ ev.type = DELETED
        THEN [W |-> [W EXCEPT !.error_model_instances = DictPop(@, mi.id)], call |-> NoCall]
        ELSE IF mi.state = ERROR
        THEN [W |-> RememberError(W, mi, model, inp), call |-> NoCall]
        ELSE IF tracked /\ ev.type = DELETED
        THEN [W |-> StopModelInstance(W, mi.id), call |-> NoCall]
        ELSE IF tracked
        THEN RestartServeProcess(W, mi, w, model, held, inp)
        ELSE IF ev.type \in {CREATED, UPDATED} /\ ~tracked
        THEN StartCall(W, mi, w, model, held, inp)
        ELSE [W |-> W, call |-> NoCall]

Dispatch(W, ev, w, model, held, inp) ==
    LET mi == ev.data
        tracked == DictHas(W.serving_model_instances, mi.id)
    IN  IF mi.state = ERROR /\ ev.type = DELETED
        THEN [W |-> [W EXCEPT !.error_model_instances = DictPop(@, mi.id)], call |-> NoCall]
        ELSE IF mi.state = ERROR
        THEN [W |-> RememberError(W, mi, model, inp), call |-> NoCall]
        ELSE IF tracked /\ ev.type = DELETED
        THEN [W |-> StopModelInstance(W, mi.id), call |-> NoCall]
        ELSE IF tracked /\ mi.state = SCHEDULED
        THEN RestartServeProcess(W, mi, w, model, held, inp)
        ELSE IF ev.type \in {CREATED, UPDATED} /\ ~tracked
        THEN StartCall(W, mi, w, model, held, inp)
        ELSE [W |-> W, call |-> NoCall]

HandleModelInstanceEvent(W, ev, w, model, held, inp) ==
    IF ShouldAct(ev.data, w) = "proceed"
    THEN Dispatch(W, ev, w, model, held, inp)
    ELSE [W |-> W, call |-> NoCall]

(***************************************************************************)
(* Scheduling.  In grain "serial" one operation runs at a time in the      *)
(* whole cluster; in "cluster" the loops of one worker run one at a time   *)
(* and workers interleave at their control-plane calls; in "threads" the   *)
(* loops of one worker interleave at their control-plane calls as well.    *)
(***************************************************************************)
Quiet == grain # "threads" => \A w \in Workers : inbox[w] = NoEvent

\* No operation of worker w is under way: each loop waits (for an event,
\* for its next round, "sleep" after a failed subscription) or has ended.
AllIdle(w) == \A l \in Loops : pc[w][l] \in {"idle", "sleep", "done"}

MayBegin(w, l) ==
    /\ Quiet
    /\ pc[w][l] = "idle"
    /\ grain = "serial" => \A v \in Workers : AllIdle(v)
    /\ NoLogger
    /\ grain = "cluster" => AllIdle(w)
    /\ NoLogger

EnvMay ==
    /\ Quiet
    /\ grain = "serial" => \A v \in Workers : AllIdle(v)
    /\ NoLogger

\* An event can be delivered: the callback is free, or (with threads) the
\* event waits in the stream while the callback handles the one before.
MayDeliver(w) ==
    /\ inbox[w] = NoEvent
    /\ grain # "threads" => MayBegin(w, "ev")

\* The pids the health sweep of worker w still holds process handles of.
Held(w) == {items[w]["hc"][j].v : j \in DOMAIN items[w]["hc"]}

SetPc(w, l, to) == pc' = [pc EXCEPT ![w][l] = to]
SetCall(w, l, c) == call' = [call EXCEPT ![w][l] = c]
SetItems(w, l, q) == items' = [items EXCEPT ![w][l] = q]
SetWorker(w, W) == worker' = [worker EXCEPT ![w] = W]

(***************************************************************************)
(* The event loop.                                                         *)
(***************************************************************************)
\* The watch delivers an event for instance i to worker w's callback.
Deliver(w, i, type) ==
    /\ MayDeliver(w)
    /\ IF cp[i].exists
       THEN type \in {CREATED, UPDATED} /\ told' = told
       ELSE type = DELETED /\ i \notin told[w] /\ told' = [told EXCEPT ![w] = @ \cup {i}]
    /\ inbox' = [inbox EXCEPT ![w] = [type |-> type, data |-> cp[i]]]
    /\ UNCHANGED <<cp, models, now, grain, logfile, worker, pc, call, items, faults>>

\* An event that returns at the gate consults nothing of the environment.
EventInputs(w) ==
    IF ShouldAct(inbox[w].data, w) = "proceed"
    THEN StartInputsFor(worker[w], inbox[w].data, models[inbox[w].data.id])
    ELSE {[lookup_ok |-> TRUE, port |-> 0, port2 |-> 0, spawn_ok |-> TRUE]}

\* _handle_model_instance_event, up to its first control-plane call.
HandleEvent(w) ==
    /\ inbox[w] # NoEvent
    /\ pc[w]["ev"] = "idle"
    /\ \E inp \in EventInputs(w) :
          /\ LET r == HandleModelInstanceEvent(worker[w], inbox[w], w,
                                               models[inbox[w].data.id], Held(w), inp)
             IN  /\ SetWorker(w, r.W)
                 /\ SetCall(w, "ev", r.call)
                 /\ SetPc(w, "ev", IF r.call = NoCall THEN "idle" ELSE "get")
          /\ faults' = IF Injected(inp) THEN faults + 1 ELSE faults
    /\ inbox' = [inbox EXCEPT ![w] = NoEvent]
    /\ UNCHANGED <<cp, models, now, grain, logfile, told, items>>

(***************************************************************************)
(* ServeManager._update_model_instance: get the record, set the patched    *)
(* attributes on it, send it back.  Both calls answer "not found" once the *)
(* instance is deleted.                                                    *)
(***************************************************************************)
Fetched(w, l) == call' = [call EXCEPT ![w][l].fetched = cp[call[w][l].id]]

Sent(c) == SetAttrs(c.fetched, c.patch)

Updated(w, l) ==
    cp' = [cp EXCEPT ![call[w][l].id] = ClientUpdate(Sent(call[w][l]), now)]

\* The except branch of _start_serve_process patches ERROR; an exception
\* raised by that patch leaves the callback.
StartPatchFailed(w) ==
    IF call[w]["ev"].next = "started"
    THEN /\ SetCall(w, "ev", UpdateCall(call[w]["ev"].id, call[w]["ev"].retry, <<>>, "failed"))
         /\ SetPc(w, "ev", "get")
    ELSE /\ SetCall(w, "ev", NoCall)
         /\ SetPc(w, "ev", "idle")

EvGet(w) ==
    /\ pc[w]["ev"] = "get"
    /\ IF cp[call[w]["ev"].id].exists
       THEN Fetched(w, "ev") /\ SetPc(w, "ev", "put")
       ELSE StartPatchFailed(w)
    /\ UNCHANGED <<cp, models, now, grain, logfile, worker, inbox, told, items, faults>>

EvPut(w) ==
    /\ pc[w]["ev"] = "put"
    /\ IF cp[call[w]["ev"].id].exists
       THEN Updated(w, "ev") /\ SetCall(w, "ev", NoCall) /\ SetPc(w, "ev", "idle")
       ELSE StartPatchFailed(w) /\ cp' = cp
    /\ UNCHANGED <<models, now, grain, logfile, worker, inbox, told, items, faults>>

(***************************************************************************)
(* ServeManager.watch_model_instances: the loop around the subscription.   *)
(***************************************************************************)
WatchFailure_Breaks(w) ==
    /\ pc[w]["ev"] = "idle"
    /\ inbox[w] = NoEvent
    /\ SetPc(w, "ev", "done")
    /\ UNCHANGED <<cp, models, now, grain, logfile, worker, inbox, told, call, items, faults>>

\* awatch raises an exception: it is logged and the loop sleeps.
WatchFailure(w) ==
    /\ pc[w]["ev"] = "idle"
    /\ inbox[w] = NoEvent
    /\ SetPc(w, "ev", "sleep")
    /\ UNCHANGED <<cp, models, now, grain, logfile, worker, inbox, told, call, items, faults>>

\* The sleep is over: the loop calls awatch again.
Resubscribe(w) ==
    /\ pc[w]["ev"] = "sleep"
    /\ SetPc(w, "ev", "idle")
    /\ UNCHANGED <<cp, models, now, grain, logfile, worker, inbox, told, call, items, faults>>

\* The scheduler that drives the health check stops with the coordinator.
SchedulerStopped(at) == "done"

Cancelled_SweepGoesOn(p) ==
    [l \in Loops |-> IF l = "hc" THEN p[l] ELSE "done"]

\* The tasks are cancelled where they wait: CancelledError ends the watch
\* loop (break, or out of the sleep) and the restart loop (no handler).
Cancelled(p) ==
    [l \in Loops |-> IF l = "hc" THEN SchedulerStopped(p[l]) ELSE "done"]

Cancel(w) ==
    /\ AllIdle(w)
    /\ inbox[w] = NoEvent
    /\ pc[w]["ev"] # "done"
    /\ pc' = [pc EXCEPT ![w] = Cancelled(pc[w])]
    /\ UNCHANGED <<cp, models, now, grain, logfile, worker, inbox, told, call, items, faults>>

(***************************************************************************)
(* ServeManager.health_check_serving_instances.                            *)
(***************************************************************************)
\* The list the sweep is iterating: list(self._serving_model_instances.items())
\* when it starts, the rest of that list afterwards.
HcList(w) ==
    IF pc[w]["hc"] = "idle" THEN worker[w].serving_model_instances ELSE items[w]["hc"]

RsList(w) ==
    IF pc[w]["rs"] = "idle" THEN worker[w].error_model_instances ELSE items[w]["rs"]

SweepList(w, l) == IF l = "hc" THEN HcList(w) ELSE RsList(w)

\* "continue": on to the next entry of the list.
Continue(w, l) ==
    /\ SetItems(w, l, Tail(SweepList(w, l)))
    /\ SetPc(w, l, IF Tail(SweepList(w, l)) = <<>> THEN "idle" ELSE "iter")

\* A control-plane call of the loop body: the sweep waits for its answer.
Await(w, l) ==
    /\ SetItems(w, l, SweepList(w, l))
    /\ SetPc(w, l, "get")

\* "return", or an exception that leaves the loop body: the sweep is over.
EndSweep(w, l) ==
    /\ SetItems(w, l, <<>>)
    /\ SetPc(w, l, "idle")

ExitedPatch(mi, w) ==
    IF mi.worker_id = w
    THEN <<Attr("state", ERROR), Attr("state_message", "Inference server exited")>>
    ELSE <<SlotAttr(SwPos(mi, w),
                    [mi.subordinate_workers[SwPos(mi, w)] EXCEPT
                        !.state = ERROR, !.state_message = "Inference server exited"])>>

SubordinateError(mi) ==
    /\ HasDistributed(mi)
    /\ \E p \in DOMAIN mi.subordinate_workers : mi.subordinate_workers[p].state = ERROR

ReadyPatch_IgnoresProbe(mi, w, ready) ==
    IF mi.worker_id = w
    THEN IF SubordinateError(mi)
         THEN <<Attr("state", ERROR),
                Attr("state_message", "Distributed serving error in subordinate worker")>>
         ELSE IF mi.state = RUNNING THEN <<>>
         ELSE <<Attr("state", RUNNING), Attr("state_message", "")>>
    ELSE IF mi.subordinate_workers[SwPos(mi, w)].state = RUNNING THEN <<>>
         ELSE <<SlotAttr(SwPos(mi, w),
                         [mi.subordinate_workers[SwPos(mi, w)] EXCEPT
                             !.state = RUNNING, !.state_message = ""])>>

\* The patch of a live, starting instance; <<>> stands for "continue".
ReadyPatch(mi, w, ready) ==
    IF mi.worker_id = w
    THEN IF SubordinateError(mi)
         THEN <<Attr("state", ERROR),
                Attr("state_message", "Distributed serving error in subordinate worker")>>
         ELSE IF ~ready \/ mi.state = RUNNING THEN <<>>
         ELSE <<Attr("state", RUNNING), Attr("state_message", "")>>
    ELSE IF mi.subordinate_workers[SwPos(mi, w)].state = RUNNING THEN <<>>
         ELSE <<SlotAttr(SwPos(mi, w),
                         [mi.subordinate_workers[SwPos(mi, w)] EXCEPT
                             !.state = RUNNING, !.state_message = ""])>>

\* One iteration of the sweep; ready is the answer of is_ready.
HcIterWith(w, ready) ==
    LET W == worker[w]
        id == Head(HcList(w)).k
        pid == Head(HcList(w)).v
        mi == cp[id]
        cached == DictHas(W.model_cache_by_instance, id)
        W1 == IF cached THEN W
              ELSE [W EXCEPT !.model_cache_by_instance = DictSet(@, id, models[id])]
    IN  /\ \/ pc[w]["hc"] = "iter"
           \/ MayBegin(w, "hc") /\ worker[w].serving_model_instances # <<>>
        /\ faults' = faults
        /\ \E lookup_ok \in {TRUE} :
              IF IsAlive(W, pid) /\ ~DictHas(W.starting_model_instances, id)
              THEN Continue(w, "hc") /\ UNCHANGED <<worker, call>>
              ELSE IF ~mi.exists
              THEN /\ SetWorker(w, StopModelInstance(W, id))
                   /\ Continue(w, "hc")
                   /\ call' = call
              ELSE IF ~IsAlive(W, pid)
              THEN IF mi.state # ERROR
                   THEN /\ SetCall(w, "hc", UpdateCall(id, ExitedPatch(mi, w), <<>>, "exited"))
                        /\ Await(w, "hc")
                        /\ worker' = worker
                   ELSE /\ SetWorker(w, PostStopModelInstance(W, id))
                        /\ EndSweep(w, "hc")
                        /\ call' = call
              ELSE IF ~cached /\ ~lookup_ok
              THEN EndSweep(w, "hc") /\ UNCHANGED <<worker, call>>
              ELSE IF mi.worker_id # w /\ models[id].backend = ASCEND_MINDIE
              THEN /\ SetWorker(w, [W1 EXCEPT !.starting_model_instances = DictPop(@, id)])
                   /\ Continue(w, "hc")
                   /\ call' = call
              ELSE IF ReadyPatch(mi, w, ready) = <<>>
              THEN /\ SetWorker(w, W1)
                   /\ Continue(w, "hc")
                   /\ call' = call
              ELSE /\ SetWorker(w, W1)
                   /\ SetCall(w, "hc", UpdateCall(id, ReadyPatch(mi, w, ready), <<>>, "ready"))
                   /\ Await(w, "hc")
        /\ UNCHANGED <<cp, models, now, grain, logfile, inbox, told>>

HcIter(w) == \E ready \in BOOLEAN : HcIterWith(w, ready)

\* After the patch of an exited process: _post_stop_model_instance and
\* return.  After the patch of a ready one: drop it from "starting".
HcAfter(w, patched) ==
    LET c == call[w]["hc"]
    IN  /\ SetCall(w, "hc", NoCall)
        /\ IF c.next = "exited"
           THEN /\ SetWorker(w, PostStopModelInstance(worker[w], c.id))
                /\ EndSweep(w, "hc")
           ELSE /\ SetWorker(w, IF patched
                                THEN [worker[w] EXCEPT
                                        !.starting_model_instances = DictPop(@, c.id)]
                                ELSE worker[w])
                /\ Continue(w, "hc")

HcGet(w) ==
    /\ pc[w]["hc"] = "get"
    /\ IF cp[call[w]["hc"].id].exists
       THEN Fetched(w, "hc") /\ SetPc(w, "hc", "put") /\ UNCHANGED <<worker, items>>
       ELSE HcAfter(w, FALSE)
    /\ UNCHANGED <<cp, models, now, grain, logfile, inbox, told, faults>>

HcPut(w) ==
    /\ pc[w]["hc"] = "put"
    /\ IF cp[call[w]["hc"].id].exists
       THEN Updated(w, "hc") /\ HcAfter(w, TRUE)
       ELSE HcAfter(w, FALSE) /\ cp' = cp
    /\ UNCHANGED <<models, now, grain, logfile, inbox, told, faults>>

(***************************************************************************)
(* ServeManager.monitor_error_instances and _restart_error_instance.       *)
(***************************************************************************)
\* min(10 * (2 ** (restart_count - 1)), 300); Python gives 10 * 0.5 = 5.0
\* for restart_count = 0, which is (10 * 2 ** restart_count) / 2 throughout.
RestartDelay_NoCap(restart_count) == (10 * Pow2(restart_count)) \div 2

RestartDelay(restart_count) == Min((10 * Pow2(restart_count)) \div 2, 300)

LastRestartTime(mi) ==
    IF mi.last_restart_time # 0 THEN mi.last_restart_time ELSE mi.updated_at

RestartDue_Early(mi, current_time) ==
    ~(LastRestartTime(mi) # 0 /\ current_time - LastRestartTime(mi) < 5)

RestartDue(mi, current_time) ==
    ~(LastRestartTime(mi) # 0 /\ current_time - LastRestartTime(mi) < RestartDelay(mi.restart_count))

RestartPatch(mi, current_time) ==
    <<Attr("restart_count", mi.restart_count + 1),
      Attr("last_restart_time", current_time),
      Attr("state", SCHEDULED),
      Attr("state_message", "")>>

RsIter(w) ==
    LET mi == Head(RsList(w)).v
    IN  /\ \/ pc[w]["rs"] = "iter"
           \/ /\ MayBegin(w, "rs")
              /\ worker[w].error_model_instances # <<>>
        /\ IF \/ DictHas(worker[w].serving_model_instances, mi.id)
              \/ ~RestartDue(mi, now)
           THEN Continue(w, "rs") /\ call' = call
           ELSE /\ SetCall(w, "rs", UpdateCall(mi.id, RestartPatch(mi, now), <<>>, "restart"))
                /\ Await(w, "rs")
        /\ UNCHANGED <<cp, models, now, grain, logfile, worker, inbox, told, faults>>

RsGet(w) ==
    /\ pc[w]["rs"] = "get"
    /\ IF cp[call[w]["rs"].id].exists
       THEN Fetched(w, "rs") /\ SetPc(w, "rs", "put") /\ items' = items
       ELSE SetCall(w, "rs", NoCall) /\ EndSweep(w, "rs")
    /\ UNCHANGED <<cp, models, now, grain, logfile, worker, inbox, told, faults>>

RsPut(w) ==
    /\ pc[w]["rs"] = "put"
    /\ IF cp[call[w]["rs"].id].exists
       THEN /\ Updated(w, "rs")
            /\ SetWorker(w, [worker[w] EXCEPT
                                !.error_model_instances = DictPop(@, call[w]["rs"].id)])
            /\ Continue(w, "rs")
       ELSE /\ EndSweep(w, "rs")
            /\ UNCHANGED <<cp, worker>>
    /\ SetCall(w, "rs", NoCall)
    /\ UNCHANGED <<models, now, grain, logfile, inbox, told, faults>>

(***************************************************************************)
(* The environment: the server, the server processes, the clock.           *)
(***************************************************************************)
\* The instance is deleted in the control plane.
ServerDelete(i) ==
    /\ EnvMay
    /\ cp[i].exists
    /\ cp' = [cp EXCEPT ![i].exists = FALSE]
    /\ UNCHANGED <<models, now, grain, logfile, worker, inbox, told, pc, call, items, faults>>

\* A server process exits by itself.
ProcessExit(w) ==
    /\ EnvMay
    /\ faults < MaxFaults
    /\ \E p \in worker[w].processes :
          SetWorker(w, [worker[w] EXCEPT !.processes = @ \ {p}])
    /\ faults' = faults + 1
    /\ UNCHANGED <<cp, models, now, grain, logfile, inbox, told, pc, call, items>>

\* The main worker's server process reports that it is loading the model.
BackendStarting(i) ==
    /\ EnvMay
    /\ cp[i].exists
    /\ cp[i].state = INITIALIZING
    /\ \E p \in worker[cp[i].worker_id].processes : p.id = i /\ p.pid = cp[i].pid
    /\ cp' = [cp EXCEPT ![i] = ClientUpdate([@ EXCEPT !.state = STARTING], now)]
    /\ UNCHANGED <<models, now, grain, logfile, worker, inbox, told, pc, call, items, faults>>

\* Time passes; the clock is read by the restart sweep alone, so it is
\* advanced while an instance is remembered for a restart.
TickTo(bound) ==
    /\ EnvMay
    /\ now < bound
    /\ \E w \in Workers : worker[w].error_model_instances # <<>>
    /\ now' = now + 5
    /\ UNCHANGED <<cp, models, grain, logfile, worker, inbox, told, pc, call, items, faults>>

Tick == TickTo(MaxTime)

(***************************************************************************)
(* The workers that are not modelled in full: what their ServeManagers     *)
(* write to the control plane.                                             *)
(***************************************************************************)
\* Another worker patches its own subordinate slot (start, ready, exit).
RemoteSlot(w, i, p, st) ==
    /\ EnvMay
    /\ cp[i].exists
    /\ p \in DOMAIN cp[i].subordinate_workers
    /\ cp[i].subordinate_workers[p].worker_id = w
    /\ cp[i].mode # DELEGATED
    /\ cp[i].subordinate_workers[p].state # st
    /\ cp' = [cp EXCEPT ![i] =
                ClientUpdate([@ EXCEPT !.subordinate_workers[p].state = st], now)]
    /\ UNCHANGED <<models, now, grain, logfile, worker, inbox, told, pc, call, items, faults>>

\* Another worker, the main one of the instance, patches the state.
RemoteMain(w, i, st) ==
    /\ EnvMay
    /\ cp[i].exists
    /\ cp[i].worker_id = w
    /\ cp[i].state # st
    /\ cp' = [cp EXCEPT ![i] = ClientUpdate([@ EXCEPT !.state = st], now)]
    /\ UNCHANGED <<models, now, grain, logfile, worker, inbox, told, pc, call, items, faults>>

\* Another worker's restart sweep reschedules the instance.
RemoteRestart(w, i) ==
    /\ EnvMay
    /\ cp[i].exists
    /\ cp[i].state = ERROR
    /\ cp[i].restart_count < MaxRestart
    /\ models[i].restart_on_error
    /\ \/ cp[i].worker_id = w
       \/ cp[i].mode \in {RUN_FIRST, INITIALIZE_LATER} /\ Joined(cp[i], w)
    /\ cp' = [cp EXCEPT ![i] = ClientUpdate(SetAttrs(@, RestartPatch(@, now)), now)]
    /\ UNCHANGED <<models, now, grain, logfile, worker, inbox, told, pc, call, items, faults>>

(***************************************************************************)
(* Specifications.                                                         *)
(***************************************************************************)
Topology(main, mode, subs) == [main |-> main, mode |-> mode, subs |-> subs]

\* Worker 1 is the main worker of the instance.
MainTopologies ==
    {Topology(1, NO_DISTRIBUTED, <<>>)}
    \cup {Topology(1, m, <<2, 3>>) : m \in {RUN_FIRST, INITIALIZE_LATER, DELEGATED}}

\* Worker 1 is the second or the first subordinate of worker 2's instance.
SubordinateTopologies ==
    {Topology(2, RUN_FIRST, <<3, 1>>), Topology(2, INITIALIZE_LATER, <<3, 1>>),
     Topology(2, INITIALIZE_LATER, <<1, 3>>)}

Models == [restart_on_error : BOOLEAN, backend : {VLLM, ASCEND_MINDIE}]

InitWith(g, topologies, ms) ==
    /\ grain = g
    /\ NoLogger
    /\ now = 5
    /\ \E t \in [Instances -> topologies] :
          cp = [i \in Instances |-> NewInstance(i, t[i].main, t[i].mode, t[i].subs, now)]
    /\ models \in [Instances -> ms]
    /\ worker = [w \in Workers |-> NewServeManager]
    /\ inbox = [w \in Workers |-> NoEvent]
    /\ told = [w \in Workers |-> {}]
    /\ pc = [w \in Workers |-> [l \in Loops |-> "idle"]]
    /\ call = [w \in Workers |-> [l \in Loops |-> NoCall]]
    /\ items = [w \in Workers |-> [l \in Loops |-> <<>>]]
    /\ faults = 0

EventLoop(w) ==
    \/ \E i \in Instances, type \in {CREATED, UPDATED, DELETED} : Deliver(w, i, type)
    \/ HandleEvent(w)
    \/ EvGet(w)
    \/ EvPut(w)

HealthSweep(w) ==
    \/ HcIter(w)
    \/ HcGet(w)
    \/ HcPut(w)

RestartSweep(w) ==
    \/ RsIter(w)
    \/ RsGet(w)
    \/ RsPut(w)

Environment ==
    \/ \E i \in Instances : ServerDelete(i)
    \/ \E w \in Workers : ProcessExit(w)
    \/ \E i \in Instances : BackendStarting(i)
    \/ Tick

RemoteSubordinates(ws) ==
    \/ \E w \in ws, i \in Instances, p \in 1..2, st \in {INITIALIZING, RUNNING, ERROR} :
          RemoteSlot(w, i, p, st)
    \/ \E w \in ws, i \in Instances : RemoteRestart(w, i)

RemoteMainWorker(ws) ==
    \E w \in ws, i \in Instances, st \in {INITIALIZING, STARTING, RUNNING, ERROR} :
        RemoteMain(w, i, st)

Coordinator(w) ==
    \/ EventLoop(w)
    \/ HealthSweep(w)
    \/ RestartSweep(w)

\* One coordinator, worker 1, as the main worker of the instance; its
\* operations run one at a time; the other workers are seen through what
\* they write to the control plane.
Init == InitWith("serial", MainTopologies, Models)

Next ==
    \/ Coordinator(1)
    \/ Environment
    \/ RemoteSubordinates({2, 3})

Spec == Init /\ [][Next]_vars

\* Worker 1 as a subordinate of an instance whose main worker is worker 2.
InitSub ==
    InitWith("serial", SubordinateTopologies,
             {m \in Models : m.restart_on_error})

NextSub ==
    \/ Coordinator(1)
    \/ \E i \in Instances : ServerDelete(i)
    \/ \E w \in Workers : ProcessExit(w)
    \/ Tick
    \/ RemoteSubordinates({2, 3})
    \/ RemoteMainWorker({2})

SpecSub == InitSub /\ [][NextSub]_vars

\* Worker 1 alone, its event loop and its sweeps running as threads.
InitThreads ==
    InitWith("threads", {Topology(1, NO_DISTRIBUTED, <<>>)},
             {[restart_on_error |-> TRUE, backend |-> VLLM]})

NextThreads ==
    \/ Coordinator(1)
    \/ \E w \in Workers : ProcessExit(w)
    \/ Tick

SpecThreads == InitThreads /\ [][NextThreads]_vars

\* The coordinators of a distributed instance, main worker 1 and subordinate
\* worker 2; each runs its own operations one at a time, and their
\* control-plane calls interleave.
InitCluster ==
    InitWith("cluster",
             {Topology(1, INITIALIZE_LATER, <<2>>), Topology(1, RUN_FIRST, <<2>>)},
             {[restart_on_error |-> TRUE, backend |-> VLLM]})

NextCluster ==
    \/ \E w \in {1, 2} : Coordinator(w)
    \/ \E i \in Instances : ServerDelete(i)
    \/ \E w \in Workers : ProcessExit(w)
    \/ Tick

SpecCluster == InitCluster /\ [][NextCluster]_vars

\* The restart sweep of worker 1 over one remembered instance, for every
\* restart count up to MaxCount and a range of elapsed times.
Elapsed == {0, 5, 10, 15, 20, 40, 80, 160, 300, 320}

InitBackoff ==
    /\ grain = "serial"
    /\ NoLogger
    /\ \E rc \in 0..MaxCount, d \in Elapsed :
          /\ now = 5 + d
          /\ cp = [i \in Instances |->
                     [NewInstance(i, 1, NO_DISTRIBUTED, <<>>, 5) EXCEPT
                         !.state = ERROR,
                         !.restart_count = rc,
                         !.last_restart_time = IF rc = 0 THEN 0 ELSE 5]]
    /\ models = [i \in Instances |-> [restart_on_error |-> TRUE, backend |-> VLLM]]
    /\ worker = [w \in Workers |->
                   IF w = 1
                   THEN [NewServeManager EXCEPT
                           !.error_model_instances =
                               [i \in Instances |-> [k |-> i, v |-> Remembered(cp[i])]]]
                   ELSE NewServeManager]
    /\ inbox = [w \in Workers |-> NoEvent]
    /\ told = [w \in Workers |-> {}]
    /\ pc = [w \in Workers |-> [l \in Loops |-> "idle"]]
    /\ call = [w \in Workers |-> [l \in Loops |-> NoCall]]
    /\ items = [w \in Workers |-> [l \in Loops |-> <<>>]]
    /\ faults = 0

NextBackoff == RestartSweep(1)

SpecBackoff == InitBackoff /\ [][NextBackoff]_vars

\* The coordinators of main worker 1 and subordinate worker 2 once the
\* instance serves: both have started their process, have been found ready
\* and have left "starting".  The loops are scheduled fairly:
\* each sweep is run again and again, every event of the stream reaches the
\* callback, a call that was sent is answered, and time passes.
Serving ==
    LET m == [restart_on_error |-> TRUE, backend |-> VLLM]
        inp == [lookup_ok |-> TRUE, port |-> 1, port2 |-> 0, spawn_ok |-> TRUE]
        mi0 == NewInstance(1, 1, INITIALIZE_LATER, <<2>>, 5)
        s1 == StartServeProcess(NewServeManager, mi0, 1, m, {}, inp)
        mi1 == SetAttrs(mi0, s1.patch)
        mi2 == SetAttrs(mi1, ReadyPatch(mi1, 1, TRUE))
        s2 == StartServeProcess(NewServeManager, mi2, 2, m, {}, inp)
        mi3 == SetAttrs(mi2, s2.patch)
    IN  [mi |-> SetAttrs(mi3, ReadyPatch(mi3, 2, TRUE)),
         main |-> [s1.W EXCEPT !.starting_model_instances = DictPop(@, 1)],
         subordinate |-> [s2.W EXCEPT !.starting_model_instances = DictPop(@, 1)]]

InitLive ==
    /\ grain = "cluster"
    /\ NoLogger
    /\ now = 5
    /\ cp = [i \in Instances |-> Serving.mi]
    /\ models = [i \in Instances |-> [restart_on_error |-> TRUE, backend |-> VLLM]]
    /\ worker = [w \in Workers |->
                   IF w = 1 THEN Serving.main
                   ELSE IF w = 2 THEN Serving.subordinate
                   ELSE NewServeManager]
    /\ inbox = [w \in Workers |-> NoEvent]
    /\ told = [w \in Workers |-> {}]
    /\ pc = [w \in Workers |-> [l \in Loops |-> "idle"]]
    /\ call = [w \in Workers |-> [l \in Loops |-> NoCall]]
    /\ items = [w \in Workers |-> [l \in Loops |-> <<>>]]
    /\ faults = 0

NextLive ==
    \/ \E w \in {1, 2} : Coordinator(w)
    \/ \E w \in Workers : ProcessExit(w)
    \/ TickTo(MaxLiveTime)

FairLive ==
    /\ \A w \in {1, 2} :
          /\ SF_vars(HealthSweep(w))
          /\ SF_vars(RestartSweep(w))
          /\ SF_vars(\E i \in Instances, type \in {CREATED, UPDATED} : Deliver(w, i, type))
          /\ SF_vars(HandleEvent(w) \/ EvGet(w) \/ EvPut(w))
    /\ SF_vars(TickTo(MaxLiveTime))

SpecLive == InitLive /\ [][NextLive]_vars /\ FairLive

\* The health sweep of worker 1 over several plain instances it serves:
\* each was started, and each is either still in "starting" or was found
\* ready (RUNNING) and has left it.
SweepInstances == 1..NumSweepInstances

SweepModel == [restart_on_error |-> TRUE, backend |-> VLLM]

RECURSIVE StartedAll(_)
StartedAll(n) ==
    IF n = 0 THEN [W |-> NewServeManager, cp |-> <<>>]
    ELSE LET before == StartedAll(n - 1)
             mi == NewInstance(n, 1, NO_DISTRIBUTED, <<>>, 5)
             inp == [lookup_ok |-> TRUE, port |-> n, port2 |-> 0, spawn_ok |-> TRUE]
             s == StartServeProcess(before.W, mi, 1, SweepModel, {}, inp)
         IN  [W |-> s.W, cp |-> Append(before.cp, SetAttrs(mi, s.patch))]

FoundReady(all, ready) ==
    [W |-> [all.W EXCEPT !.starting_model_instances =
                            SelectSeq(@, LAMBDA e : e.k \notin ready)],
     cp |-> [i \in SweepInstances |->
               IF i \in ready THEN SetAttrs(all.cp[i], ReadyPatch(all.cp[i], 1, TRUE))
               ELSE all.cp[i]]]

InitSweep ==
    /\ grain = "serial"
    /\ NoLogger
    /\ now = 5
    /\ \E ready \in SUBSET SweepInstances :
          /\ cp = FoundReady(StartedAll(NumSweepInstances), ready).cp
          /\ worker = [w \in Workers |->
                         IF w = 1 THEN FoundReady(StartedAll(NumSweepInstances), ready).W
                         ELSE NewServeManager]
    /\ models = [i \in SweepInstances |-> SweepModel]
    /\ inbox = [w \in Workers |-> NoEvent]
    /\ told = [w \in Workers |-> {}]
    /\ pc = [w \in Workers |-> [l \in Loops |-> "idle"]]
    /\ call = [w \in Workers |-> [l \in Loops |-> NoCall]]
    /\ items = [w \in Workers |-> [l \in Loops |-> <<>>]]
    /\ faults = 0

NextSweep ==
    \/ HealthSweep(1)
    \/ \E i \in SweepInstances : ServerDelete(i)
    \/ \E w \in Workers : ProcessExit(w)

SpecSweep == InitSweep /\ [][NextSweep]_vars

\* The restart sweep and the event loop of worker 1 over several plain
\* instances whose start failed: each is in state ERROR and is remembered
\* for a restart.
RECURSIVE FailedAll(_)
FailedAll(n) ==
    IF n = 0 THEN [W |-> NewServeManager, cp |-> <<>>]
    ELSE LET before == FailedAll(n - 1)
             mi == NewInstance(n, 1, NO_DISTRIBUTED, <<>>, 5)
             inp == [lookup_ok |-> TRUE, port |-> n, port2 |-> 0, spawn_ok |-> FALSE]
             s == StartServeProcess(before.W, mi, 1, SweepModel, {}, inp)
             failed == SetAttrs(mi, s.patch)
         IN  [W |-> RememberError(s.W, failed, SweepModel, inp),
              cp |-> Append(before.cp, failed)]

InitErrors ==
    /\ grain = "serial"
    /\ NoLogger
    /\ now = 5
    /\ cp = [i \in SweepInstances |-> FailedAll(NumSweepInstances).cp[i]]
    /\ worker = [w \in Workers |->
                   IF w = 1 THEN FailedAll(NumSweepInstances).W ELSE NewServeManager]
    /\ models = [i \in SweepInstances |-> SweepModel]
    /\ inbox = [w \in Workers |-> NoEvent]
    /\ told = [w \in Workers |-> {}]
    /\ pc = [w \in Workers |-> [l \in Loops |-> "idle"]]
    /\ call = [w \in Workers |-> [l \in Loops |-> NoCall]]
    /\ items = [w \in Workers |-> [l \in Loops |-> <<>>]]
    /\ faults = 0

NextErrors ==
    \/ RestartSweep(1)
    \/ \E i \in SweepInstances, type \in {CREATED, UPDATED, DELETED} : Deliver(1, i, type)
    \/ HandleEvent(1)
    \/ EvGet(1)
    \/ EvPut(1)
    \/ \E i \in SweepInstances : ServerDelete(i)
    \/ Tick

SpecErrors == InitErrors /\ [][NextErrors]_vars

\* The event loop of worker 1 as the main worker of several new instances,
\* plain or distributed, that compete for the ports of the range.
InitPorts ==
    /\ grain = "serial"
    /\ NoLogger
    /\ now = 5
    /\ \E t \in [SweepInstances -> {Topology(1, NO_DISTRIBUTED, <<>>),
                                    Topology(1, INITIALIZE_LATER, <<2>>)}] :
          cp = [i \in SweepInstances |-> NewInstance(i, t[i].main, t[i].mode, t[i].subs, now)]
    /\ models \in [SweepInstances -> {m \in Models : m.restart_on_error}]
    /\ worker = [w \in Workers |-> NewServeManager]
    /\ inbox = [w \in Workers |-> NoEvent]
    /\ told = [w \in Workers |-> {}]
    /\ pc = [w \in Workers |-> [l \in Loops |-> "idle"]]
    /\ call = [w \in Workers |-> [l \in Loops |-> NoCall]]
    /\ items = [w \in Workers |-> [l \in Loops |-> <<>>]]
    /\ faults = 0

NextPorts ==
    \/ \E i \in SweepInstances, type \in {CREATED, UPDATED, DELETED} : Deliver(1, i, type)
    \/ HandleEvent(1)
    \/ EvGet(1)
    \/ EvPut(1)
    \/ \E i \in SweepInstances : ServerDelete(i)

SpecPorts == InitPorts /\ [][NextPorts]_vars

\* Worker 1 alone with a plain instance; its subscription can fail at any
\* time, and the coordinator can be cancelled.  A sleep that has begun ends.
InitWatch ==
    InitWith("serial", {Topology(1, NO_DISTRIBUTED, <<>>)},
             {[restart_on_error |-> TRUE, backend |-> VLLM]})

NextWatch ==
    \/ Coordinator(1)
    \/ WatchFailure(1)
    \/ Resubscribe(1)
    \/ Cancel(1)
    \/ \E i \in Instances : ServerDelete(i)
    \/ \E w \in Workers : ProcessExit(w)
    \/ Tick

SpecWatch == InitWatch /\ [][NextWatch]_vars /\ WF_vars(Resubscribe(1))

\* Worker 1 receives the events of instances of main worker 2 it has no part
\* in: plain ones, delegated ones, distributed ones it has not joined.
IgnoredTopologies ==
    {Topology(2, NO_DISTRIBUTED, <<>>), Topology(2, DELEGATED, <<1, 3>>),
     Topology(2, RUN_FIRST, <<3>>), Topology(2, INITIALIZE_LATER, <<3>>)}

InitIgnored == InitWith("serial", IgnoredTopologies, Models)

NextIgnored ==
    \/ \E i \in Instances, type \in {CREATED, UPDATED, DELETED} : Deliver(1, i, type)
    \/ HandleEvent(1)
    \/ \E i \in Instances : ServerDelete(i)
    \/ RemoteSubordinates({3})
    \/ RemoteMainWorker({2})

SpecIgnored == InitIgnored /\ [][NextIgnored]_vars

(***************************************************************************)
(* DailyRotatingLogFile (gpustack/worker/daily_rotating_logger.py): the    *)
(* file-like object a served process's output is written through.  One     *)
(* object is shared by the writer threads, its own date-checker thread and *)
(* the main thread, which calls fileno() and close().  A step is one       *)
(* access to the object's fields or to a file object.                      *)
(***************************************************************************)
Dates == 1..MaxDate
Writers == {"writer1", "writer2"}
Threads == Writers \cup {"checker", "main"}

\* The n-th string thread t passes to write(); len(data) differs per string.
Data(t, n) == [by |-> t, n |-> n]
LenOf(data) == data.n + 1
\* "\n--- Log rotated from {old_date} to {current_date} ---\n"
RotationMark(old_date, current_date) == [by |-> "Log rotated", n |-> old_date]

\* `self._current_file and not self._current_file.closed`
IsOpen(h) == h # 0 /\ ~handles[h].closed

Go(t, to) == thread' = [thread EXCEPT ![t].pc = to]

\* _rotate_if_needed: read the date and decide whether to rotate.
RotateCheck_OnlyWithoutFile(t) ==
    /\ thread[t].pc = "rotate"
    /\ thread' = [thread EXCEPT
           ![t].cd = date,
           ![t].change = logger.current_date # 0 /\ logger.current_date # date,
           ![t].pc = IF logger.current_file = 0
                     THEN "r_close" ELSE thread[t].back]
    /\ UNCHANGED <<coordinator, date, files, handles, logger>>

RotateCheck(t) ==
    /\ thread[t].pc = "rotate"
    /\ thread' = [thread EXCEPT
           ![t].cd = date,
           ![t].change = logger.current_date # 0 /\ logger.current_date # date,
           ![t].pc = IF logger.current_date # date \/ logger.current_file = 0
                     THEN "r_close" ELSE thread[t].back]
    /\ UNCHANGED <<coordinator, date, files, handles, logger>>

\* _rotate_if_needed: close the file of the earlier date.
RotateClose(t) ==
    /\ thread[t].pc = "r_close"
    /\ handles' = IF IsOpen(logger.current_file)
                  THEN [handles EXCEPT ![logger.current_file].closed = TRUE]
                  ELSE handles
    /\ Go(t, "r_open")
    /\ UNCHANGED <<coordinator, date, files, logger>>

\* _rotate_if_needed: open <log_dir>/<current_date>.log for appending.
RotateOpen(t) ==
    /\ thread[t].pc = "r_open"
    /\ handles' = Append(handles, [date |-> thread[t].cd, closed |-> FALSE])
    /\ logger' = [logger EXCEPT !.current_file = Len(handles) + 1]
    /\ Go(t, "r_date")
    /\ UNCHANGED <<coordinator, date, files>>

\* _rotate_if_needed: old_date = self._current_date; self._current_date = ...
RotateDate(t) ==
    /\ thread[t].pc = "r_date"
    /\ logger' = [logger EXCEPT !.current_date = thread[t].cd]
    /\ thread' = [thread EXCEPT
           ![t].old = logger.current_date,
           ![t].pc = IF thread[t].change THEN "r_mark" ELSE thread[t].back]
    /\ UNCHANGED <<coordinator, date, files, handles>>

\* _rotate_if_needed: write the rotation mark; a failure is caught and
\* leaves the object without a file.
RotateMark(t) ==
    /\ thread[t].pc = "r_mark"
    /\ LET h == logger.current_file
       IN IF IsOpen(h)
          THEN /\ files' = [files EXCEPT ![handles[h].date] =
                      Append(@, RotationMark(thread[t].old, thread[t].cd))]
               /\ UNCHANGED logger
          ELSE /\ logger' = [logger EXCEPT !.current_file = 0]
               /\ UNCHANGED files
    /\ Go(t, thread[t].back)
    /\ UNCHANGED <<coordinator, date, handles>>

\* _date_checker: the loop test, then _rotate_if_needed without the lock;
\* the sleep that follows ends at the loop test again.
CheckerLoop ==
    /\ thread["checker"].pc = "c_loop"
    /\ thread' = [thread EXCEPT
           !["checker"].pc = IF logger.stop_thread THEN "done" ELSE "rotate",
           !["checker"].back = "c_loop"]
    /\ UNCHANGED <<coordinator, date, files, handles, logger>>

\* write: `with self._lock:`
WriteLock(t) ==
    /\ thread[t].pc = "idle"
    /\ thread[t].n < MaxWrites
    /\ logger.lock = "free"
    /\ logger' = [logger EXCEPT !.lock = t]
    /\ thread' = [thread EXCEPT ![t].pc = "w_test", ![t].n = @ + 1,
                                ![t].ret = 0]
    /\ UNCHANGED <<coordinator, date, files, handles>>

\* write: `if self._current_file:`, else `return len(data)`.
WriteTest(t) ==
    /\ thread[t].pc = "w_test"
    /\ IF logger.current_file # 0
       THEN /\ Go(t, "w_write")
            /\ UNCHANGED logger
       ELSE /\ thread' = [thread EXCEPT
                   ![t].pc = "idle", ![t].ret = LenOf(Data(t, thread[t].n))]
            /\ logger' = [logger EXCEPT !.lock = "free"]
    /\ UNCHANGED <<coordinator, date, files, handles>>

\* write: `self._current_file.write(data)`; a closed file raises ValueError,
\* which leaves the `with` block and reaches the caller.
WriteData(t) ==
    /\ thread[t].pc = "w_write"
    /\ LET h == logger.current_file
       IN IF IsOpen(h)
          THEN /\ files' = [files EXCEPT ![handles[h].date] =
                                Append(@, Data(t, thread[t].n))]
               /\ Go(t, "w_flush")
               /\ UNCHANGED logger
          ELSE /\ Go(t, "raised")
               /\ logger' = [logger EXCEPT !.lock = "free"]
               /\ UNCHANGED files
    /\ UNCHANGED <<coordinator, date, handles>>

\* write: `self._current_file.flush()`, `return result`.
WriteFlush(t) ==
    /\ thread[t].pc = "w_flush"
    /\ IF IsOpen(logger.current_file)
       THEN thread' = [thread EXCEPT
                ![t].pc = "idle", ![t].ret = LenOf(Data(t, thread[t].n))]
       ELSE Go(t, "raised")
    /\ logger' = [logger EXCEPT !.lock = "free"]
    /\ UNCHANGED <<coordinator, date, files, handles>>

\* close: `self._stop_thread = True`, then `join(timeout=2)`, which returns
\* when the checker thread has ended or when the two seconds are over.
CloseStop ==
    /\ thread["main"].pc = "idle"
    /\ ~thread["main"].closed
    /\ logger' = [logger EXCEPT !.stop_thread = TRUE]
    /\ Go("main", "close")
    /\ UNCHANGED <<coordinator, date, files, handles>>

\* close: under the lock, close the file and forget it; close() returns.
CloseFile ==
    /\ thread["main"].pc = "close"
    /\ logger.lock = "free"
    /\ LET h == logger.current_file
       IN IF IsOpen(h)
          THEN /\ handles' = [handles EXCEPT ![h].closed = TRUE]
               /\ logger' = [logger EXCEPT !.current_file = 0]
          ELSE UNCHANGED <<handles, logger>>
    /\ thread' = [thread EXCEPT !["main"].pc = "idle", !["main"].closed = TRUE]
    /\ UNCHANGED <<coordinator, date, files>>

\* fileno: `with self._lock: self._rotate_if_needed()`
FilenoLock ==
    /\ thread["main"].pc = "idle"
    /\ logger.lock = "free"
    /\ logger' = [logger EXCEPT !.lock = "main"]
    /\ thread' = [thread EXCEPT !["main"].pc = "rotate",
                                !["main"].back = "f_return"]
    /\ UNCHANGED <<coordinator, date, files, handles>>

\* fileno: the descriptor of the current file, or None (0).
FilenoReturn ==
    /\ thread["main"].pc = "f_return"
    /\ logger' = [logger EXCEPT !.lock = "free"]
    /\ thread' = [thread EXCEPT !["main"].pc = "idle",
                                !["main"].ret = logger.current_file]
    /\ UNCHANGED <<coordinator, date, files, handles>>

\* Midnight passes.
NextDay ==
    /\ date < MaxDate
    /\ date' = date + 1
    /\ UNCHANGED <<coordinator, files, handles, logger, thread>>

\* No coordinator takes part in the specifications of the log file.
NoCoordinator ==
    /\ cp = <<>>
    /\ models = <<>>
    /\ now = 0
    /\ grain = "threads"
    /\ worker = <<>>
    /\ inbox = <<>>
    /\ told = <<>>
    /\ pc = <<>>
    /\ call = <<>>
    /\ items = <<>>
    /\ faults = 0

\* After __init__ on the first day: the day's file is open, the checker
\* thread is started, nothing is written yet.
InitLog ==
    /\ NoCoordinator
    /\ date = 1
    /\ files = [d \in Dates |-> <<>>]
    /\ handles = <<[date |-> 1, closed |-> FALSE]>>
    /\ logger = [current_file |-> 1, current_date |-> 1, lock |-> "free",
                 stop_thread |-> FALSE]
    /\ thread = [t \in Threads |->
                    [pc |-> IF t = "checker" THEN "c_loop" ELSE "idle",
                     n |-> 0, ret |-> 0, cd |-> 1, change |-> FALSE,
                     old |-> 0, back |-> "idle", closed |-> FALSE]]

\* Writers and the date checker, while the object is in use.
NextRotate ==
    \/ \E t \in Writers :
          \/ WriteLock(t)
          \/ WriteTest(t)
          \/ WriteData(t)
          \/ WriteFlush(t)
    \/ CheckerLoop
    \/ RotateCheck("checker")
    \/ RotateClose("checker")
    \/ RotateOpen("checker")
    \/ RotateDate("checker")
    \/ RotateMark("checker")
    \/ NextDay

SpecRotate == InitLog /\ [][NextRotate]_vars

\* One writer, the date checker, and the main thread calling fileno() and
\* close().
NextLog ==
    \/ WriteLock("writer1")
    \/ WriteTest("writer1")
    \/ WriteData("writer1")
    \/ WriteFlush("writer1")
    \/ CheckerLoop
    \/ \E t \in {"checker", "main"} :
          \/ RotateCheck(t)
          \/ RotateClose(t)
          \/ RotateOpen(t)
          \/ RotateDate(t)
          \/ RotateMark(t)
    \/ FilenoLock
    \/ FilenoReturn
    \/ CloseStop
    \/ CloseFile
    \/ NextDay

\* The checker is a thread of its own: it is not held up forever.
FairLog ==
    /\ WF_vars(CheckerLoop)
    /\ WF_vars(RotateCheck("checker"))
    /\ WF_vars(RotateClose("checker"))
    /\ WF_vars(RotateOpen("checker"))
    /\ WF_vars(RotateDate("checker"))
    /\ WF_vars(RotateMark("checker"))

SpecLog == InitLog /\ [][NextLog]_vars /\ FairLog

\* Two plain instances of worker 1 with a restart-on-error model, from their
\* creation on: started by events, found exited by the health sweep,
\* rescheduled by the restart sweep and started again with the port that
\* the first start recorded on the instance.
InitReuse ==
    /\ grain = "serial"
    /\ NoLogger
    /\ now = 5
    /\ cp = [i \in SweepInstances |-> NewInstance(i, 1, NO_DISTRIBUTED, <<>>, now)]
    /\ models = [i \in SweepInstances |-> SweepModel]
    /\ worker = [w \in Workers |-> NewServeManager]
    /\ inbox = [w \in Workers |-> NoEvent]
    /\ told = [w \in Workers |-> {}]
    /\ pc = [w \in Workers |-> [l \in Loops |-> "idle"]]
    /\ call = [w \in Workers |-> [l \in Loops |-> NoCall]]
    /\ items = [w \in Workers |-> [l \in Loops |-> <<>>]]
    /\ faults = 0

NextReuse ==
    \/ \E i \in SweepInstances, type \in {CREATED, UPDATED} : Deliver(1, i, type)
    \/ HandleEvent(1)
    \/ EvGet(1)
    \/ EvPut(1)
    \/ HealthSweep(1)
    \/ RestartSweep(1)
    \/ ProcessExit(1)
    \/ Tick

SpecReuse == InitReuse /\ [][NextReuse]_vars

\* A RUN_FIRST instance from its creation on: main worker 1 waits at the
\* gate for its subordinate, worker 2.  Worker 2's host may fail to start
\* the server once (HandleEvent) and again on every later attempt
\* (StartFailsAgain).  Events keep being delivered and handled, the health
\* sweeps keep running, and an update that makes every subordinate RUNNING
\* reaches the main worker's callback.
InitRunFirst ==
    /\ grain = "cluster"
    /\ NoLogger
    /\ now = 5
    /\ cp = [i \in Instances |-> NewInstance(i, 1, RUN_FIRST, <<2>>, now)]
    /\ models = [i \in Instances |-> [restart_on_error |-> TRUE, backend |-> VLLM]]
    /\ worker = [w \in Workers |-> NewServeManager]
    /\ inbox = [w \in Workers |-> NoEvent]
    /\ told = [w \in Workers |-> {}]
    /\ pc = [w \in Workers |-> [l \in Loops |-> "idle"]]
    /\ call = [w \in Workers |-> [l \in Loops |-> NoCall]]
    /\ items = [w \in Workers |-> [l \in Loops |-> <<>>]]
    /\ faults = 0

\* _handle_model_instance_event on a host where the spawn has failed before
\* and fails again: the failure counter stays at its bound.
StartFailsAgain(w) ==
    /\ inbox[w] # NoEvent
    /\ pc[w]["ev"] = "idle"
    /\ faults = MaxFaults
    /\ \E ok \in EventInputs(w) :
          LET inp == [ok EXCEPT !.spawn_ok = FALSE]
              r == HandleModelInstanceEvent(worker[w], inbox[w], w,
                                            models[inbox[w].data.id], Held(w), inp)
          IN  /\ ok.spawn_ok
              /\ r.call # NoCall
              /\ r.call.next = "failed"
              /\ SetWorker(w, r.W)
              /\ SetCall(w, "ev", r.call)
              /\ SetPc(w, "ev", "get")
    /\ inbox' = [inbox EXCEPT ![w] = NoEvent]
    /\ UNCHANGED <<cp, models, now, grain, logfile, told, items, faults>>

\* all(sw.state == RUNNING for sw in subordinate_workers)
AllSubordinatesRunning(mi) ==
    \A p \in DOMAIN mi.subordinate_workers : mi.subordinate_workers[p].state = RUNNING

NextRunFirst ==
    \/ \E w \in {1, 2} : EventLoop(w)
    \/ \E w \in {1, 2} : HealthSweep(w)
    \/ StartFailsAgain(2)

FairRunFirst ==
    /\ \A w \in {1, 2} :
          /\ SF_vars(HealthSweep(w))
          /\ SF_vars(\E i \in Instances, type \in {CREATED, UPDATED} : Deliver(w, i, type))
          /\ SF_vars(HandleEvent(w) \/ StartFailsAgain(w) \/ EvGet(w) \/ EvPut(w))
    /\ SF_vars(\E i \in Instances, type \in {CREATED, UPDATED} :
                  Deliver(1, i, type) /\ AllSubordinatesRunning(cp[i]))

SpecRunFirst == InitRunFirst /\ [][NextRunFirst]_vars /\ FairRunFirst

\* The serving instance of InitLive, which may be deleted in the control
\* plane; the DELETED event reaches both workers.
NextGone ==
    \/ \E w \in {1, 2} : Coordinator(w)
    \/ \E w \in Workers : ProcessExit(w)
    \/ \E i \in Instances : ServerDelete(i)
    \/ TickTo(MaxLiveTime)

FairGone ==
    /\ \A w \in {1, 2} :
          /\ SF_vars(HealthSweep(w))
          /\ SF_vars(RestartSweep(w))
          /\ SF_vars(\E i \in Instances, type \in {CREATED, UPDATED, DELETED} :
                        Deliver(w, i, type))
          /\ SF_vars(HandleEvent(w) \/ EvGet(w) \/ EvPut(w))
    /\ SF_vars(TickTo(MaxLiveTime))

SpecGone == InitLive /\ [][NextGone]_vars /\ FairGone

\* The coordinator process of worker w ends and is started again between
\* two operations: ServeManager.__init__ gives empty local maps, the server
\* processes it had launched keep running, the mapping file stays on disk,
\* and the new subscription delivers the instances that exist.
CoordinatorRestart(w) ==
    /\ EnvMay
    /\ faults < MaxFaults
    /\ SetWorker(w, [NewServeManager EXCEPT
                        !.processes = worker[w].processes,
                        !.instance_mapping = worker[w].instance_mapping])
    /\ told' = [told EXCEPT ![w] = {i \in DOMAIN cp : ~cp[i].exists}]
    /\ faults' = faults + 1
    /\ UNCHANGED <<cp, models, now, grain, logfile, inbox, pc, call, items>>

\* Worker 1 with a plain instance, its operations one at a time, and at most
\* MaxFaults failures, a restart of the coordinator being one.
InitRestart == InitWith("serial", {Topology(1, NO_DISTRIBUTED, <<>>)}, Models)

NextRestart ==
    \/ Coordinator(1)
    \/ Environment
    \/ CoordinatorRestart(1)

SpecRestart == InitRestart /\ [][NextRestart]_vars

(***************************************************************************)
(* The mapping file alone: the calls that _start_serve_process and         *)
(* _post_stop_model_instance make on instance_mapping.txt, for several     *)
(* instance ids, each call as its read of the file followed by its         *)
(* rewrite.  The event loop updates and removes, the health sweep removes. *)
(***************************************************************************)
NumMappingIds == 3
NumDirs == 2

MappingIds == 1..NumMappingIds

\* f"{self._serve_log_dir}/{mi.model_name}/{mi.name}"
MappingDirs == {<<"serve", n>> : n \in 1..NumDirs}

MappingFile == worker[1].instance_mapping

\* _update_instance_mapping, lines 359-377.
UpdateMappingRead(l, id, dir) ==
    /\ MayBegin(1, l)
    /\ SetPc(1, l, "rewrite")
    /\ SetCall(1, l, [op |-> "update", id |-> id, dir |-> dir,
                      mappings |-> UpdatedMappings(MappingFile, id, dir)])
    /\ UNCHANGED <<cp, models, now, grain, worker, inbox, told, items, faults, logfile>>

\* _remove_instance_mapping, lines 389-407.  A file without lines stands for
\* the missing file as well: `if not os.path.exists(mapping_file): return`.
RemoveMappingRead(l, id) ==
    /\ MayBegin(1, l)
    /\ MappingFile # <<>>
    /\ SetPc(1, l, "rewrite")
    /\ SetCall(1, l, [op |-> "remove", id |-> id,
                      mappings |-> RemainingMappings(MappingFile, id)])
    /\ UNCHANGED <<cp, models, now, grain, worker, inbox, told, items, faults, logfile>>

\* with open(mapping_file, "w") ...: lines 380-383 and 410-413.
MappingRewrite(l) ==
    /\ pc[1][l] = "rewrite"
    /\ worker' = [worker EXCEPT ![1].instance_mapping = WriteMappings(call[1][l].mappings)]
    /\ SetPc(1, l, "idle")
    /\ SetCall(1, l, NoCall)
    /\ UNCHANGED <<cp, models, now, grain, inbox, told, items, faults, logfile>>

InitMapping(g) ==
    /\ grain = g
    /\ NoLogger
    /\ now = 0
    /\ cp = <<>>
    /\ models = <<>>
    /\ worker = [w \in Workers |-> NewServeManager]
    /\ inbox = [w \in Workers |-> NoEvent]
    /\ told = [w \in Workers |-> {}]
    /\ pc = [w \in Workers |-> [l \in Loops |-> "idle"]]
    /\ call = [w \in Workers |-> [l \in Loops |-> NoCall]]
    /\ items = [w \in Workers |-> [l \in Loops |-> <<>>]]
    /\ faults = 0

NextMapping ==
    \/ \E id \in MappingIds, dir \in MappingDirs : UpdateMappingRead("ev", id, dir)
    \/ \E l \in {"ev", "hc"}, id \in MappingIds : RemoveMappingRead(l, id)
    \/ \E l \in {"ev", "hc"} : MappingRewrite(l)

\* One call at a time.
SpecMapping == InitMapping("serial") /\ [][NextMapping]_vars

\* The event loop and the health sweep as threads.
SpecMappingThreads == InitMapping("threads") /\ [][NextMapping]_vars

(***************************************************************************)
(* Properties.                                                             *)
(***************************************************************************)
\* The server processes of instance i that run on worker w's host.
LiveProcesses(w, i) == {p \in worker[w].processes : p.id = i}

Tracked(w, i) == DictHas(worker[w].serving_model_instances, i)

\* The event in worker w's callback is handled by this step.
Handles(w) == inbox[w] # NoEvent /\ inbox'[w] = NoEvent

\* This step completes a control-plane update of worker w's loop l.
Writes(w, l) == pc[w][l] = "put" /\ pc'[w][l] # "put" /\ cp' # cp

\* C1: with the operations of worker 1 dispatched one at a time, every live
\* server process of an instance is the one process "serving" tracks for
\* it: at most one is tracked, and none spawned earlier is still alive.
C1_OneProcessPerInstance ==
    \A i \in Instances : \A p \in LiveProcesses(1, i) :
        /\ Tracked(1, i)
        /\ DictGet(worker[1].serving_model_instances, i) = p.pid

\* The restart branch has replaced a process that was alive and tracked: no
\* process has exited or failed to start, the instance has been rescheduled
\* after a start that recorded its pid, and a start has just run again.
C1_Witness ==
    /\ faults = 0
    /\ cp[1].exists
    /\ cp[1].restart_count = 1
    /\ cp[1].state = SCHEDULED
    /\ cp[1].pid # 0
    /\ pc[1]["ev"] = "get"
    /\ call[1]["ev"].next = "started"
    /\ Cardinality(LiveProcesses(1, 1)) = 1

\* C2: a DELETED event for an id in "serving" leaves, once handled, no
\* process of that id and no entry for it in "serving", "serving ports",
\* "starting", the model cache and the mapping file, whatever state and
\* coordination mode its snapshot carries.
C2_DeletedRemovesAll ==
    [][\A w \in Workers :
          (/\ Handles(w)
           /\ inbox[w].type = DELETED
           /\ Tracked(w, inbox[w].data.id))
          => LET id == inbox[w].data.id
                 W == worker'[w]
             IN  /\ \A p \in W.processes : p.id # id
                 /\ ~DictHas(W.serving_model_instances, id)
                 /\ ~DictHas(W.serving_model_instance_ports, id)
                 /\ ~DictHas(W.starting_model_instances, id)
                 /\ ~DictHas(W.model_cache_by_instance, id)
                 /\ ~DictHas(W.instance_mapping, id)]_vars

\* C3: an instance id is a key of "serving ports" exactly when it is a key
\* of "serving".
C3_PortsIffServing ==
    \A w \in Workers :
        DictKeys(worker[w].serving_model_instance_ports)
            = DictKeys(worker[w].serving_model_instances)

\* A start has failed partway (the mapping entry is written, nothing is
\* tracked) and the ERROR patch is under way.
C3_Witness ==
    /\ pc[1]["ev"] = "get"
    /\ call[1]["ev"].next = "failed"
    /\ DictHas(worker[1].instance_mapping, 1)
    /\ ~Tracked(1, 1)
    /\ ~DictHas(worker[1].serving_model_instance_ports, 1)

\* C4: when the health sweep interleaves with the event loop, the cleanup
\* it runs for a process it saw exited leaves the "serving", "serving
\* ports" and "starting" entries of a replacement process alone.
C4_CleanupSparesReplacement ==
    [][\A w \in Workers :
          LET c == call[w]["hc"]
              W == worker[w]
          IN  (/\ pc[w]["hc"] \in {"get", "put"}
               /\ c.next = "exited"
               /\ pc'[w]["hc"] = "idle"
               /\ DictHas(W.serving_model_instances, c.id)
               /\ DictGet(W.serving_model_instances, c.id) # Head(items[w]["hc"]).v)
              => /\ worker'[w].serving_model_instances = W.serving_model_instances
                 /\ worker'[w].serving_model_instance_ports = W.serving_model_instance_ports
                 /\ worker'[w].starting_model_instances = W.starting_model_instances]_vars

\* C5: a control-plane update changes the fields of its patch and no
\* other: it never overwrites a sibling field that another worker updated
\* while the update was under way.
C5_PatchKeepsSiblings ==
    [][\A w \in Workers, l \in Loops :
          Writes(w, l) =>
              cp'[call[w][l].id]
                  = ClientUpdate(SetAttrs(cp[call[w][l].id], call[w][l].patch), now)]_vars

\* The part of a record a subordinate at position pos does not own.
OutsideSlot(mi, pos) ==
    [mi EXCEPT !.updated_at = 0,
               !.subordinate_workers[pos].state = SCHEDULED,
               !.subordinate_workers[pos].state_message = "",
               !.subordinate_workers[pos].pid = 0]

\* C6: a write a subordinate issues at start, on start failure, on process
\* exit or on readiness changes only state, state_message and pid of its own
\* slot, and a write by the main worker changes no slot.
C6_WritesStayInOwnPart ==
    [][\A w \in Workers, l \in Loops :
          Writes(w, l) =>
              LET old == cp[call[w][l].id]
                  new == cp'[call[w][l].id]
              IN  IF old.worker_id = w
                  THEN new.subordinate_workers = old.subordinate_workers
                  ELSE l \in {"ev", "hc"} =>
                           OutsideSlot(new, SwPos(old, w)) = OutsideSlot(old, SwPos(old, w))]_vars

\* C7: restart_count never decreases and last_restart_time never moves
\* backwards in the control plane.
C7_RestartCountMonotone ==
    [][\A i \in Instances :
          /\ cp'[i].restart_count >= cp[i].restart_count
          /\ cp'[i].last_restart_time >= cp[i].last_restart_time]_vars

\* The snapshot names this worker as main, RUN_FIRST and a subordinate that
\* is not RUNNING.
RunFirstNotReady(mi, w) ==
    /\ mi.worker_id = w
    /\ mi.mode = RUN_FIRST
    /\ \E p \in DOMAIN mi.subordinate_workers : mi.subordinate_workers[p].state # RUNNING

\* C8: the main worker of a RUN_FIRST instance handles an event whose
\* snapshot has a subordinate that is not RUNNING without spawning a
\* process, changing a local map or issuing a control-plane write.
C8_RunFirstMainWaits ==
    [][\A w \in Workers :
          (Handles(w) /\ RunFirstNotReady(inbox[w].data, w))
          => /\ worker'[w] = worker[w]
             /\ call'[w] = call[w]
             /\ pc'[w] = pc[w]
             /\ cp' = cp]_vars

\* Such an event is in the callback of worker 1 while one subordinate is
\* RUNNING and the other is not.
C8_Witness ==
    /\ inbox[1] # NoEvent
    /\ inbox[1].type \in {CREATED, UPDATED}
    /\ RunFirstNotReady(inbox[1].data, 1)
    /\ \E p \in DOMAIN inbox[1].data.subordinate_workers :
          inbox[1].data.subordinate_workers[p].state = RUNNING
    /\ inbox[1].data.state = SCHEDULED

\* The snapshot names this worker as a subordinate behind one that is
\* neither RUNNING nor ERROR.
EarlierNotReady(mi, w) ==
    /\ mi.worker_id # w
    /\ Joined(mi, w)
    /\ \E p \in 1..(SwPos(mi, w) - 1) : mi.subordinate_workers[p].state \notin {RUNNING, ERROR}

\* C9: a subordinate handles an event whose snapshot has an earlier
\* subordinate that is neither RUNNING nor ERROR without spawning a process
\* or issuing a control-plane write.
C9_LaterSubordinateWaits ==
    [][\A w \in Workers :
          (Handles(w) /\ EarlierNotReady(inbox[w].data, w))
          => /\ worker'[w].processes = worker[w].processes
             /\ worker'[w].serving_model_instances = worker[w].serving_model_instances
             /\ call'[w] = call[w]
             /\ cp' = cp]_vars

\* Such an event is in the callback of worker 1, second in the list, with
\* the main worker far enough for every other condition of the gate.
C9_Witness ==
    /\ inbox[1] # NoEvent
    /\ inbox[1].type \in {CREATED, UPDATED}
    /\ EarlierNotReady(inbox[1].data, 1)
    /\ inbox[1].data.state \in {STARTING, RUNNING}
    /\ ~Tracked(1, inbox[1].data.id)

\* The delays of restart_count 1, 2, 3, ...
DelayTable == <<10, 20, 40, 80, 160, 300, 300, 300, 300>>

\* C10: for restart_count = 1, 2, 3, 4, ... the delay is 10, 20, 40, 80, ...
\* seconds, min(10 * 2^(restart_count - 1), 300): non-decreasing and never
\* above 300.
C10_DelaySequence ==
    \A w \in Workers : \A j \in DOMAIN worker[w].error_model_instances :
        LET rc == worker[w].error_model_instances[j].v.restart_count
        IN  /\ rc \in DOMAIN DelayTable => RestartDelay(rc) = DelayTable[rc]
            /\ rc >= 1 => RestartDelay(rc) = Min(10 * Pow2(rc - 1), 300)
            /\ RestartDelay(rc) <= 300
            /\ RestartDelay(rc) <= RestartDelay(rc + 1)

\* The sweep has found an instance past the cap (restart_count 6, delay 300)
\* due and is rescheduling it.
C10_Witness ==
    /\ pc[1]["rs"] = "get"
    /\ \E j \in DOMAIN worker[1].error_model_instances :
          /\ worker[1].error_model_instances[j].v.restart_count = 6
          /\ now - LastRestartTime(worker[1].error_model_instances[j].v) = 300

\* The delay of a restart count, and the time since the last restart (or
\* the last update) of a remembered instance.
DelayOf(rc) == IF rc = 0 THEN 5 ELSE DelayTable[rc]

ElapsedSince(mi) ==
    now - (IF mi.last_restart_time # 0 THEN mi.last_restart_time ELSE mi.updated_at)

\* C11: for a remembered instance that is not in "serving", the restart
\* sweep writes nothing and keeps it remembered while the elapsed time is
\* below the delay; from the delay on it issues one patch (restart_count
\* plus one, last_restart_time now, state SCHEDULED, empty message) and then
\* forgets the instance.
C11_RestartSweepStep ==
    [][\A w \in Workers :
          /\ (/\ pc[w]["rs"] \in {"idle", "iter"}
              /\ RsList(w) # <<>>
              /\ ~Tracked(w, Head(RsList(w)).v.id))
             => LET mi == Head(RsList(w)).v
                IN  IF ElapsedSince(mi) < DelayOf(mi.restart_count)
                    THEN /\ cp' = cp
                         /\ call'[w] = call[w]
                         /\ pc'[w]["rs"] \in {"idle", "iter"}
                         /\ worker'[w].error_model_instances = worker[w].error_model_instances
                    ELSE /\ cp' = cp
                         /\ worker'[w].error_model_instances = worker[w].error_model_instances
                         /\ pc'[w]["rs"] = "get"
                         /\ call'[w]["rs"].id = mi.id
                         /\ call'[w]["rs"].patch =
                              <<[f |-> "restart_count", pos |-> 0, v |-> mi.restart_count + 1],
                                [f |-> "last_restart_time", pos |-> 0, v |-> now],
                                [f |-> "state", pos |-> 0, v |-> SCHEDULED],
                                [f |-> "state_message", pos |-> 0, v |-> ""]>>
          /\ (pc[w]["rs"] = "put" /\ cp[call[w]["rs"].id].exists)
             => LET id == call[w]["rs"].id
                    mi == DictGet(worker[w].error_model_instances, id)
                IN  /\ cp'[id].restart_count = mi.restart_count + 1
                    /\ cp'[id].last_restart_time = now
                    /\ cp'[id].state = SCHEDULED
                    /\ cp'[id].state_message = ""
                    /\ ~DictHas(worker'[w].error_model_instances, id)
                    /\ call'[w]["rs"] = NoCall]_vars

\* The sweep has rescheduled an instance remembered with restart_count 2
\* once 20 seconds had passed, and has forgotten it.
C11_Witness ==
    /\ pc[1]["rs"] = "idle"
    /\ cp[1].state = SCHEDULED
    /\ cp[1].restart_count = 3
    /\ cp[1].last_restart_time = now
    /\ now = 25
    /\ worker[1].error_model_instances = <<>>

\* C12: a CREATED event for an instance without distributed servers and
\* without a port, on its assigned worker, whose start succeeds, spawns
\* exactly one process, adds the id to "serving", "serving ports" and
\* "starting", and patches the control plane once with state INITIALIZING,
\* the chosen port and the pid of the spawned process.
C12_PlainStart ==
    [][\A w \in Workers :
          /\ (/\ Handles(w)
              /\ inbox[w].type = CREATED
              /\ inbox[w].data.mode = NO_DISTRIBUTED
              /\ inbox[w].data.port = 0
              /\ inbox[w].data.worker_id = w
              /\ call'[w]["ev"] # NoCall
              /\ call'[w]["ev"].next = "started")
             => LET id == inbox[w].data.id
                    W == worker'[w]
                    spawned == W.processes \ worker[w].processes
                IN  /\ Cardinality(spawned) = 1
                    /\ \A p \in spawned : /\ p.id = id
                                          /\ DictGet(W.serving_model_instances, id) = p.pid
                    /\ Cardinality({p \in W.processes : p.id = id}) = 1
                    /\ DictHas(W.serving_model_instances, id)
                    /\ DictHas(W.serving_model_instance_ports, id)
                    /\ DictHas(W.starting_model_instances, id)
                    /\ \E port \in PortRange :
                          /\ DictGet(W.serving_model_instance_ports, id) = {port}
                          /\ call'[w]["ev"].patch =
                               <<[f |-> "state", pos |-> 0, v |-> INITIALIZING],
                                 [f |-> "port", pos |-> 0, v |-> port],
                                 [f |-> "ports", pos |-> 0, v |-> <<port>>],
                                 [f |-> "pid", pos |-> 0,
                                  v |-> DictGet(W.serving_model_instances, id)]>>
          /\ (/\ pc[w]["ev"] = "put"
              /\ call[w]["ev"].next = "started"
              /\ cp[call[w]["ev"].id].exists
              /\ cp[call[w]["ev"].id].mode = NO_DISTRIBUTED
              /\ cp[call[w]["ev"].id].worker_id = w)
             => LET id == call[w]["ev"].id
                IN  /\ cp'[id].state = INITIALIZING
                    /\ cp'[id].port \in DictGet(worker[w].serving_model_instance_ports, id)
                    /\ cp'[id].ports = <<cp'[id].port>>
                    /\ cp'[id].pid = DictGet(worker[w].serving_model_instances, id)
                    /\ call'[w]["ev"] = NoCall
                    /\ pc'[w]["ev"] = "idle"]_vars

\* The first start of such an instance has been patched: the control plane
\* shows INITIALIZING with the port and the pid of the one live process.
C12_Witness ==
    /\ cp[1].mode = NO_DISTRIBUTED
    /\ cp[1].state = INITIALIZING
    /\ cp[1].restart_count = 0
    /\ cp[1].port # 0
    /\ pc[1]["ev"] = "idle"
    /\ Tracked(1, 1)
    /\ LiveProcesses(1, 1) = {[pid |-> cp[1].pid, id |-> 1]}
    /\ DictHas(worker[1].starting_model_instances, 1)
    /\ faults = 0

\* C13: once a step of the start path has failed (the patch that follows
\* the spawn included) and the start path goes on to patch ERROR, the id is
\* in none of "serving", "serving ports" and "starting".
C13_FailedStartTracksNothing ==
    \A w \in Workers :
        (call[w]["ev"] # NoCall /\ call[w]["ev"].next = "failed")
        => /\ ~DictHas(worker[w].serving_model_instances, call[w]["ev"].id)
           /\ ~DictHas(worker[w].serving_model_instance_ports, call[w]["ev"].id)
           /\ ~DictHas(worker[w].starting_model_instances, call[w]["ev"].id)

\* C14: when the health sweep drops an instance whose process has exited,
\* the control plane shows ERROR for it (the top-level state if this worker
\* is main, this worker's slot if it is a subordinate) and the id is gone
\* from "serving", "serving ports", "starting", the model cache and the
\* mapping file.
C14_ExitedIsReportedAndDropped ==
    [][\A w \in Workers, i \in Instances :
          (/\ Tracked(w, i)
           /\ ~DictHas(worker'[w].serving_model_instances, i)
           /\ inbox' = inbox
           /\ cp[i].exists
           /\ ~IsAlive(worker[w], DictGet(worker[w].serving_model_instances, i)))
          => /\ IF cp[i].worker_id = w
                THEN cp'[i].state = ERROR
                ELSE cp'[i].subordinate_workers[SwPos(cp[i], w)].state = ERROR
             /\ ~DictHas(worker'[w].serving_model_instance_ports, i)
             /\ ~DictHas(worker'[w].starting_model_instances, i)
             /\ ~DictHas(worker'[w].model_cache_by_instance, i)
             /\ ~DictHas(worker'[w].instance_mapping, i)]_vars

\* C15: once a tracked process of an instance whose model has
\* restart-on-error has exited, the restart policy eventually reschedules
\* the instance (its restart count grows) and the worker eventually runs a
\* new process for it.
C15_ExitedIsRestarted ==
    \A w \in {1, 2}, i \in Instances :
        (/\ Tracked(w, i)
         /\ LiveProcesses(w, i) = {}
         /\ cp[i].exists
         /\ models[i].restart_on_error)
        ~> (cp[i].restart_count > 0 /\ LiveProcesses(w, i) # {})

\* C16: whenever the health sweep of a worker can begin while it serves, as
\* main worker, an instance whose process is alive and one of whose
\* subordinates is in state ERROR, the sweep patches the instance to ERROR
\* with the subordinate's message, whether or not the instance is still in
\* "starting".
C16_SubordinateErrorReachesMain ==
    \A w \in Workers, i \in Instances :
        (/\ MayBegin(w, "hc")
         /\ Tracked(w, i)
         /\ LiveProcesses(w, i) # {}
         /\ cp[i].exists
         /\ cp[i].worker_id = w
         /\ SubordinateError(cp[i]))
        => ENABLED (/\ HcIter(w)
                    /\ call'[w]["hc"].op = "update"
                    /\ call'[w]["hc"].id = i
                    /\ call'[w]["hc"].patch =
                          <<Attr("state", ERROR),
                            Attr("state_message",
                                 "Distributed serving error in subordinate worker")>>)

\* A step of worker w's health sweep.
HcStep(w) ==
    \/ pc'[w]["hc"] # pc[w]["hc"]
    \/ items'[w]["hc"] # items[w]["hc"]
    \/ call'[w]["hc"] # call[w]["hc"]
    \/ worker'[w].serving_model_instances # worker[w].serving_model_instances
    \/ worker'[w].starting_model_instances # worker[w].starting_model_instances

\* C17: a health sweep ends only with the last id of the list it took from
\* "serving" when it began: whatever it finds for an earlier id (a process
\* that has exited, an instance that is gone), it goes on to the ids after.
C17_SweepExaminesEveryId ==
    [][\A w \in Workers :
          (HcStep(w) /\ HcList(w) # <<>> /\ pc'[w]["hc"] = "idle")
          => Len(HcList(w)) = 1]_vars

\* A step of worker w's restart sweep.
RsStep(w) ==
    \/ pc'[w]["rs"] # pc[w]["rs"]
    \/ items'[w]["rs"] # items[w]["rs"]
    \/ call'[w]["rs"] # call[w]["rs"]
    \/ worker'[w].error_model_instances # worker[w].error_model_instances

\* C18: an "instance not found" answer to the restart sweep's patch is
\* suppressed: the sweep goes on to the remembered instances after that one,
\* so it ends only with the last id of the list it began with.
C18_NotFoundKeepsSweeping ==
    [][\A w \in Workers :
          (RsStep(w) /\ RsList(w) # <<>> /\ pc'[w]["rs"] = "idle")
          => Len(RsList(w)) = 1]_vars

\* The ports the other locally serving instances hold.
PortsOfOthers(w, i) ==
    UNION {worker[w].serving_model_instance_ports[j].v :
             j \in {n \in DOMAIN worker[w].serving_model_instance_ports :
                      worker[w].serving_model_instance_ports[n].k # i}}

\* The ports attribute of the patch a start sends.
PatchedPorts(c) ==
    LET at == {j \in DOMAIN c.patch : c.patch[j].f = "ports"}
    IN  IF at = {} THEN <<>> ELSE c.patch[CHOOSE j \in at : TRUE].v

\* C19: when the start path assigns ports to an instance that has none,
\* every port it takes is outside the serving ports of the instances the
\* worker serves at that moment, and a second port differs from the first.
C19_AllocatedPortsAreFree ==
    [][\A w \in Workers :
          (/\ Handles(w)
           /\ inbox[w].data.port = 0
           /\ call'[w]["ev"] # NoCall
           /\ call'[w]["ev"].next = "started")
          => LET i == inbox[w].data.id
                 ports == PatchedPorts(call'[w]["ev"])
             IN  /\ Len(ports) >= 1
                 /\ \A j \in DOMAIN ports :
                       /\ ports[j] \in PortRange
                       /\ ports[j] \notin PortsOfOthers(w, i)
                 /\ Len(ports) = 2 => ports[1] # ports[2]
                 /\ DictGet(worker'[w].serving_model_instance_ports, i)
                       = {ports[j] : j \in DOMAIN ports}]_vars

\* Two instances are served at once, each on a port the start path assigned.
C19_Witness ==
    \E i, j \in SweepInstances :
        /\ i # j
        /\ Tracked(1, i)
        /\ Tracked(1, j)
        /\ DictGet(worker[1].serving_model_instance_ports, i) # {}
        /\ DictGet(worker[1].serving_model_instance_ports, j) # {}
        /\ cp[i].port # 0
        /\ cp[j].port # 0

\* The sweep of worker w can begin, and it will probe instance i: the
\* worker is its main worker, the process is alive, the id is in "starting"
\* and no subordinate is in state ERROR.
Probed(w, i) ==
    /\ MayBegin(w, "hc")
    /\ cp[i].exists
    /\ cp[i].worker_id = w
    /\ Tracked(w, i)
    /\ LiveProcesses(w, i) # {}
    /\ DictHas(worker[w].starting_model_instances, i)
    /\ ~SubordinateError(cp[i])
    /\ Head(HcList(w)).k = i

\* C20: a sweep whose probe of such an instance fails sends nothing to the
\* control plane and changes no local map; the instance stays in "serving"
\* and in "starting", so the next sweep probes it again.
C20_FailedProbeChangesNothing ==
    \A w \in Workers, i \in Instances :
        Probed(w, i)
        => /\ ENABLED (/\ HcIterWith(w, FALSE)
                       /\ cp' = cp
                       /\ worker' = worker
                       /\ call' = call)
           /\ ~ENABLED (/\ HcIterWith(w, FALSE)
                        /\ \/ cp' # cp
                           \/ worker' # worker
                           \/ call' # call)

\* An instance that is still initializing is about to be probed.
C20_Witness ==
    \E w \in Workers, i \in Instances :
        Probed(w, i) /\ cp[i].state \in {INITIALIZING, STARTING}

\* C21: a failed subscription never ends the event loop.  The loop ends
\* only when the coordinator is cancelled, which ends the restart loop in
\* the same step; after a failure it sleeps, and from the sleep it always
\* comes back to the subscription unless it is cancelled.
C21_WatchLoopSurvives ==
    /\ [][\A w \in Workers :
             (pc[w]["ev"] # "done" /\ pc'[w]["ev"] = "done") => pc'[w]["rs"] = "done"]_vars
    /\ \A w \in Workers :
          (pc[w]["ev"] = "sleep") ~> (pc[w]["ev"] = "idle" \/ pc[w]["rs"] = "done")

\* The subscription has failed while the worker serves an instance: the
\* loop sleeps before it subscribes again.
C21_Witness ==
    /\ Tracked(1, 1)
    /\ pc[1]["ev"] = "sleep"
    /\ pc[1]["rs"] # "done"

\* The local maps of a worker's state, the process table left out.
LocalMaps(W) ==
    <<W.serving_model_instances, W.serving_model_instance_ports,
      W.starting_model_instances, W.error_model_instances,
      W.model_cache_by_instance, W.instance_mapping>>

NoPartIn(mi, w) ==
    /\ mi.worker_id # w
    /\ \/ ~HasDistributed(mi)
       \/ mi.mode = DELEGATED
       \/ ~Joined(mi, w)

\* C23: the handler of an event for an instance the worker has no part in
\* changes nothing of the worker's state (maps, remembered instances, model
\* cache, processes), starts no call and leaves the control plane as it is.
C23_IgnoredEventChangesNothing ==
    [][\A w \in Workers :
          (Handles(w) /\ NoPartIn(inbox[w].data, w))
          => /\ worker'[w] = worker[w]
             /\ call'[w] = call[w]
             /\ pc'[w] = pc[w]
             /\ cp' = cp]_vars

\* An ERROR snapshot of a delegated instance that lists worker 1 is about
\* to be handled by worker 1.
C23_Witness ==
    /\ inbox[1] # NoEvent
    /\ NoPartIn(inbox[1].data, 1)
    /\ inbox[1].data.mode = DELEGATED
    /\ inbox[1].data.state = ERROR

\* The snapshot shows an INITIALIZE_LATER instance of another worker that
\* lists worker w, its main instance not yet initialized.
MainNotInitialized(mi, w) ==
    /\ mi.worker_id # w
    /\ mi.mode = INITIALIZE_LATER
    /\ Joined(mi, w)
    /\ mi.state \notin {STARTING, RUNNING, ERROR}

\* C24: the handler of such an event on the subordinate worker spawns and
\* stops no process, changes no map and starts no control-plane call; this
\* includes the snapshot in which the main instance is INITIALIZING.
C24_SubordinateWaitsForMain ==
    [][\A w \in Workers :
          (Handles(w) /\ MainNotInitialized(inbox[w].data, w))
          => /\ worker'[w] = worker[w]
             /\ call'[w] = call[w]
             /\ pc'[w] = pc[w]
             /\ cp' = cp]_vars

\* Worker 1, not yet serving, is about to handle the snapshot in which the
\* main worker has patched INITIALIZING; no earlier subordinate holds it back.
C24_Witness ==
    /\ inbox[1] # NoEvent
    /\ MainNotInitialized(inbox[1].data, 1)
    /\ inbox[1].data.state = INITIALIZING
    /\ EarlierReady(inbox[1].data, 1)
    /\ inbox[1].type = UPDATED
    /\ ~Tracked(1, 1)

\* Two contents of one log file: what the earlier one holds is still there.
Keeps(before, after) ==
    /\ Len(after) >= Len(before)
    /\ SubSeq(after, 1, Len(before)) = before

\* This step is thread t's write() putting its data into the file of date d.
Wrote(t, d) ==
    /\ thread[t].pc = "w_write"
    /\ thread'[t].pc = "w_flush"
    /\ files'[d] # files[d]

TimesWritten(t, k) ==
    Cardinality({x \in {<<d, j>> : d \in Dates, j \in 1..(2 * MaxWrites + MaxDate)} :
                    /\ x[2] <= Len(files[x[1]])
                    /\ files[x[1]][x[2]] = Data(t, k)})

\* C26: with several threads in write() while the date-checker thread
\* rotates, no write() meets a closed file (none ends in the ValueError a
\* closed file raises) and the data of every write() that has returned
\* stands exactly once in the log files.
C26_EveryWriteLandsOnce ==
    \A t \in Writers :
       /\ thread[t].pc # "raised"
       /\ \A k \in 1..MaxWrites :
             (k < thread[t].n \/ (k = thread[t].n /\ thread[t].pc = "idle"))
                => TimesWritten(t, k) = 1

\* close() has returned.
Closed == thread["main"].closed

\* The checker thread has left its loop.
CheckerStopped == thread["checker"].pc = "done"

\* C27: once close() has returned the checker thread eventually stops, the
\* object has no file any more (no later call and no late iteration of the
\* checker opens one), no step writes to a log file, and every write() that
\* returns gives back the length of its argument.
C27_ClosedStaysClosed ==
    /\ Closed ~> CheckerStopped
    /\ [](Closed => logger.current_file = 0)
    /\ [][Closed =>
            /\ files' = files
            /\ \A t \in Writers :
                  (thread[t].pc # "idle" /\ thread'[t].pc = "idle")
                     => thread'[t].ret = LenOf(Data(t, thread[t].n))]_vars

\* The changes of an instance's state that the state machine lets the patch
\* of control loop l make.
Follows(l, from, to) ==
    \/ to = ERROR
    \/ l = "ev" /\ from = SCHEDULED /\ to = INITIALIZING
    \/ l = "hc" /\ from \in {INITIALIZING, STARTING} /\ to = RUNNING
    \/ l = "rs" /\ from = ERROR /\ to = SCHEDULED

\* C28: whenever a patch of a coordinator changes the state of an instance
\* in the control plane, the change follows the state machine: the start
\* path takes SCHEDULED to INITIALIZING, the health sweep takes a starting
\* instance to RUNNING, the restart policy takes ERROR to SCHEDULED, and
\* ERROR may be written over any state; so ERROR never becomes INITIALIZING
\* or RUNNING by a coordinator's patch.
C28_PatchesFollowStateMachine ==
    [][\A w \in Workers, l \in Loops, i \in Instances :
          (/\ Writes(w, l)
           /\ cp[i].exists
           /\ cp'[i].exists
           /\ cp'[i].state # cp[i].state)
             => Follows(l, cp[i].state, cp'[i].state)]_vars

\* Worker w handles the event in its inbox with the inputs inp, and then the
\* same event once more, whatever the inputs of the second handling are:
\* the second handling leaves the worker's maps and processes as the first
\* left them and makes no control-plane call.
SecondChangesNothing(w, inp) ==
    LET ev == inbox[w]
        model == models[ev.data.id]
        first == HandleModelInstanceEvent(worker[w], ev, w, model, Held(w), inp)
        inputs == IF ShouldAct(ev.data, w) = "proceed"
                  THEN StartInputsFor(first.W, ev.data, model)
                  ELSE {inp}
    IN  \A again \in inputs :
           HandleModelInstanceEvent(first.W, ev, w, model, Held(w), again)
              = [W |-> first.W, call |-> NoCall]

\* Worker w's callback is about to handle the event in its inbox.
Pending(w) == inbox[w] # NoEvent /\ pc[w]["ev"] = "idle"

WentThrough(w, inp) ==
    LET first == HandleModelInstanceEvent(worker[w], inbox[w], w,
                     models[inbox[w].data.id], Held(w), inp)
    IN  /\ ~Injected(inp)
        /\ first.call # NoCall => first.call.next = "started"

ErrorEventRemembered(w, type, mi) ==
    LET before == worker[w].error_model_instances
        after == worker'[w].error_model_instances
    IN  IF type = DELETED
        THEN after = DictPop(before, mi.id)
        ELSE IF models[mi.id].restart_on_error
        THEN after = DictSet(before, mi.id, Remembered(mi))
        ELSE after = before

\* C30: handling an event whose snapshot state is ERROR and that passes the
\* gate spawns no process, stops none, leaves "serving" as it is and makes
\* no control-plane call; when the model lookup answers, a DELETED event
\* removes the id from the remembered-ERROR set and any other event stores
\* the snapshot there exactly when the model has restart-on-error.  Hence
\* every remembered id belongs to a model with restart-on-error.
C30_ErrorEventOnlyRemembers ==
    /\ [][\A w \in Workers :
             (/\ Handles(w)
              /\ inbox[w].data.state = ERROR
              /\ ShouldAct(inbox[w].data, w) = "proceed")
                => /\ worker'[w].processes = worker[w].processes
                   /\ worker'[w].serving_model_instances
                         = worker[w].serving_model_instances
                   /\ call'[w] = call[w]
                   /\ pc'[w] = pc[w]
                   /\ cp' = cp
                   /\ faults' = faults
                         => ErrorEventRemembered(w, inbox[w].type, inbox[w].data)]_vars
    /\ [](\A w \in Workers : \A i \in Instances :
             DictHas(worker[w].error_model_instances, i)
                => models[i].restart_on_error)

\* An ERROR event has been handled and its snapshot is remembered, while
\* "serving" is empty.
C30_Witness ==
    /\ DictHas(worker[1].error_model_instances, 1)
    /\ cp[1].exists
    /\ cp[1].state = ERROR
    /\ inbox[1] = NoEvent

\* This step handles a CREATED or UPDATED event with state SCHEDULED that
\* passes the gate, for an id worker w has in "serving".
Reschedules(w) ==
    /\ Handles(w)
    /\ inbox[w].type \in {CREATED, UPDATED}
    /\ inbox[w].data.state = SCHEDULED
    /\ Tracked(w, inbox[w].data.id)
    /\ ShouldAct(inbox[w].data, w) = "proceed"

\* C31: handling a SCHEDULED event for an id in "serving" terminates the old
\* process and spawns a new one: when the start goes through, the one live
\* process of the id is the one "serving" maps it to, the id is in "serving
\* ports", "starting" and the model cache again, and the patch sent is the
\* start patch, which leaves the main instance INITIALIZING; when the start
\* fails, no process of the id is left and the id is in none of the maps.
C31_RescheduledIsRestarted ==
    [][\A w \in Workers :
          /\ Reschedules(w) =>
                LET id == inbox[w].data.id
                    W == worker'[w]
                    live == {p \in W.processes : p.id = id}
                IN  IF call'[w]["ev"].next = "started"
                    THEN /\ DictHas(W.serving_model_instances, id)
                         /\ live = {[pid |-> DictGet(W.serving_model_instances, id),
                                      id |-> id]}
                         /\ DictHas(W.serving_model_instance_ports, id)
                         /\ DictHas(W.starting_model_instances, id)
                         /\ DictHas(W.model_cache_by_instance, id)
                         /\ pc'[w]["ev"] = "get"
                    ELSE /\ live = {}
                         /\ ~DictHas(W.serving_model_instances, id)
                         /\ ~DictHas(W.serving_model_instance_ports, id)
                         /\ ~DictHas(W.starting_model_instances, id)
                         /\ call'[w]["ev"].next = "failed"
          /\ (/\ Writes(w, "ev")
              /\ call[w]["ev"].next = "started"
              /\ cp[call[w]["ev"].id].worker_id = w)
                => cp'[call[w]["ev"].id].state = INITIALIZING]_vars

\* A SCHEDULED event for an id in "serving" is about to be handled.
C31_Witness ==
    \E w \in Workers :
       /\ Pending(w)
       /\ inbox[w].type \in {CREATED, UPDATED}
       /\ inbox[w].data.state = SCHEDULED
       /\ Tracked(w, inbox[w].data.id)
       /\ ShouldAct(inbox[w].data, w) = "proceed"

\* The sweep of worker w can begin, and it will look at instance i, of
\* which w serves a subordinate slot: the process is alive and the id is in
\* "starting".
ProbedSlot(w, i) ==
    /\ MayBegin(w, "hc")
    /\ cp[i].exists
    /\ cp[i].worker_id # w
    /\ Tracked(w, i)
    /\ LiveProcesses(w, i) # {}
    /\ DictHas(worker[w].starting_model_instances, i)
    /\ Head(HcList(w)).k = i

\* The state the sweep reads for worker w's role in instance i, and the
\* patch that makes it RUNNING with an empty message.
OwnState(w, i) ==
    IF cp[i].worker_id = w THEN cp[i].state
    ELSE cp[i].subordinate_workers[SwPos(cp[i], w)].state

RunningPatch(w, i) ==
    IF cp[i].worker_id = w
    THEN <<Attr("state", RUNNING), Attr("state_message", "")>>
    ELSE <<SlotAttr(SwPos(cp[i], w),
                    [cp[i].subordinate_workers[SwPos(cp[i], w)] EXCEPT
                        !.state = RUNNING, !.state_message = ""])>>

\* C32: a sweep that finds the process of a starting instance alive, no
\* subordinate in ERROR and the probe successful sends the RUNNING patch
\* (state RUNNING, empty message; for a subordinate, on its own slot) exactly
\* when the state it read was not RUNNING already, and the id is out of
\* "starting" afterwards: at once when nothing is sent, else when the patch
\* has gone through.
C32_ReadyLeavesStarting ==
    \A w \in Workers, i \in Instances :
       /\ (Probed(w, i) \/ ProbedSlot(w, i))
             => ~ENABLED (/\ HcIterWith(w, TRUE)
                          /\ IF OwnState(w, i) = RUNNING
                             THEN \/ call' # call
                                  \/ DictHas(worker'[w].starting_model_instances, i)
                             ELSE call'[w]["hc"]
                                     # UpdateCall(i, RunningPatch(w, i), <<>>, "ready"))
       /\ (/\ pc[w]["hc"] = "put"
           /\ call[w]["hc"].id = i
           /\ call[w]["hc"].next = "ready"
           /\ cp[i].exists)
             => ~ENABLED (/\ HcPut(w)
                          /\ DictHas(worker'[w].starting_model_instances, i))


\* The lines of instance id in the mapping file.
LinesOf(lines, id) == SelectSeq(lines, LAMBDA e : e.k = id)

\* Loop l's rewrite of the mapping file takes place in this step.
Rewrites(l) == pc[1][l] = "rewrite" /\ pc'[1][l] = "idle"

\* C33: with one mapping call at a time, after every rewrite the mapping file
\* holds at most one line per instance id; an update for id i leaves exactly
\* one line for i, with the new directory, a removal of i leaves no line for
\* i, and both leave the lines of every other id as they were.
C33_OneLinePerId ==
    [][\A l \in {"ev", "hc"} :
          Rewrites(l) =>
             LET c == call[1][l]
                 before == worker[1].instance_mapping
                 after == worker'[1].instance_mapping
             IN  /\ \A id \in MappingIds : Len(LinesOf(after, id)) <= 1
                 /\ \A id \in MappingIds \ {c.id} :
                        LinesOf(after, id) = LinesOf(before, id)
                 /\ c.op = "update" =>
                        LinesOf(after, c.id) = <<[k |-> c.id, v |-> c.dir]>>
                 /\ c.op = "remove" => LinesOf(after, c.id) = <<>>]_vars

\* A file of three lines whose first line was replaced by an update, and the
\* removal of the id of its second line about to be written.
C33_Witness ==
    /\ Len(MappingFile) = 3
    /\ MappingFile[1] = [k |-> 1, v |-> <<"serve", 2>>]
    /\ MappingFile[2].k = 2
    /\ pc[1]["hc"] = "rewrite"
    /\ call[1]["hc"].op = "remove"
    /\ call[1]["hc"].id = 2
    /\ Len(call[1]["hc"].mappings) = 2

\* C34: with the event loop and the health sweep as threads, the event
\* loop's update for instance A and the health sweep's removal for instance
\* B, each a read followed by a rewrite, do not undo each other: the rewrite
\* of the update leaves the line of A and changes no other id's lines (B's
\* line, once removed, does not come back), the rewrite of the removal
\* leaves no line of B and changes no other id's lines (A's line stays).
C34_RewritesDoNotUndoEachOther ==
    [][/\ (Rewrites("ev") /\ call[1]["ev"].op = "update") =>
             /\ LinesOf(worker'[1].instance_mapping, call[1]["ev"].id)
                   = <<[k |-> call[1]["ev"].id, v |-> call[1]["ev"].dir]>>
             /\ \A id \in MappingIds \ {call[1]["ev"].id} :
                   LinesOf(worker'[1].instance_mapping, id)
                      = LinesOf(worker[1].instance_mapping, id)
       /\ Rewrites("hc") =>
             /\ LinesOf(worker'[1].instance_mapping, call[1]["hc"].id) = <<>>
             /\ \A id \in MappingIds \ {call[1]["hc"].id} :
                   LinesOf(worker'[1].instance_mapping, id)
                      = LinesOf(worker[1].instance_mapping, id)]_vars


\* C35: whenever the restart sweep's patch sets an instance to SCHEDULED, the
\* state of the instance in the control plane just before that write is
\* ERROR: a remembered snapshot that is out of date never sends an instance
\* that is SCHEDULED, INITIALIZING, STARTING or RUNNING back to SCHEDULED.
C35_RestartPatchOnlyFromError ==
    [][\A w \in Workers :
          (Writes(w, "rs") /\ cp'[call[w]["rs"].id].state = SCHEDULED)
             => cp[call[w]["rs"].id].state = ERROR]_vars


InErrorSet(w, i) == DictHas(worker[w].error_model_instances, i)

\* C36: with the loops scheduled fairly, every entry of a coordinator's
\* remembered-ERROR set is eventually removed (by the restart patch or by
\* the instance's deletion): none stays for ever, whether its id is in
\* "serving" or not.
C36_RememberedIsRemoved ==
    \A w \in {1, 2}, i \in Instances : InErrorSet(w, i) ~> ~InErrorSet(w, i)


\* C37: the port sets that a worker's "serving ports" records for two
\* different instance ids are disjoint, also after an instance was started
\* with the port its snapshot already carried.
C37_ServingPortsDisjoint ==
    \A w \in Workers :
       LET ports == worker[w].serving_model_instance_ports
       IN  \A a, b \in DOMAIN ports :
              a # b => ports[a].v \cap ports[b].v = {}


\* C38: in RUN_FIRST mode, with events delivered and sweeps run fairly, a
\* main instance that waits for its subordinates (SCHEDULED, not started)
\* while a subordinate is in state ERROR eventually reaches ERROR or is
\* started by its main worker.
C38_MainDoesNotWaitForEver ==
    \A i \in Instances :
        (/\ cp[i].mode = RUN_FIRST
         /\ SubordinateError(cp[i])
         /\ cp[i].state = SCHEDULED
         /\ ~Tracked(cp[i].worker_id, i))
        ~> (cp[i].state = ERROR \/ Tracked(cp[i].worker_id, i))


\* C39: with the loops scheduled fairly, every process a worker serves for
\* an instance that no longer exists in the control plane is eventually
\* stopped, also when the process is alive and the id has left "starting".
C39_GoneIsStopped ==
    \A w \in {1, 2}, i \in Instances :
        (Tracked(w, i) /\ LiveProcesses(w, i) # {} /\ ~cp[i].exists)
        ~> (LiveProcesses(w, i) = {})


\* C40: across a restart of the coordinator, whose local maps start empty
\* while the server processes launched before keep running, the events the
\* new subscription delivers never give an instance id a second live
\* process on the worker's host.
C40_OneLiveProcessAcrossRestart ==
    \A i \in Instances : Cardinality(LiveProcesses(1, i)) <= 1

====
